---- MODULE Spec2Model ----
(***************************************************************************)
(* TITAN EMR backend: tenant isolation over PostgreSQL row level security  *)
(* and the database triggers that keep derived fields consistent.          *)
(*                                                                         *)
(* SpecIso   - tRPC requests (middleware + handlers) over the one shared   *)
(*             database client, the session variables app.user_id /        *)
(*             app.center_id and the row level security policies.          *)
(* SpecInv   - statements on invoice_items with trg_invoice_recalc.        *)
(* SpecStock - pharmacy item creation and the two createTransaction routes *)
(*             with trg_pharmacy_upd.                                      *)
(* SpecAct   - statements on medical_acts with trg_medact_comm.            *)
(* SpecPgp   - the PGPService functions over encrypt_pgp_data /            *)
(*             decrypt_pgp_data and the key in system_settings.            *)
(* SpecAppt  - appointments.create / getById with their encrypted notes.   *)
(* SpecAdmin - the reads of a superadmin who has no center.                *)
(* SpecLedger- pharmacyItems.delete next to the createTransaction routes.  *)
(* SpecAudit - row mutations with the audit triggers and audit_logs.       *)
(* SpecAuth  - requireUser / requireAdmin for requests with and without a    *)
(*             user.                                                         *)
(* SpecEnc   - medical acts and prescriptions, scoped through encounters.    *)
(* SpecSuper - users.create / users.update by a superadmin with a center.    *)
(* SpecPwd   - AuthService.validatePasswordStrength.                         *)
(* SpecPay   - concurrent invoices.addPayment requests on one invoice.       *)
(* SpecFs    - the file store procedures and the default store.              *)
(* SpecCancel- appointments.cancel over the stored notes.                    *)
(* SpecTrail - concurrent patients.update requests with audit_patients.      *)
(***************************************************************************)
EXTENDS Integers, Sequences, FiniteSets, TLC

NULL == "null"

\* ------------------------------------------------------------------------
\* Tenants and principals
\* ------------------------------------------------------------------------
Centers == {"A", "B"}
Users == {"u1", "u2"}

\* ctx.user.centerId of each authenticated user (users.center_id)
UserCenterId == [u \in Users |-> IF u = "u1" THEN "A" ELSE "B"]

\* ctx.user.isSuperadmin (users.is_superadmin)
IsSuperadmin == [u \in Users |-> FALSE]

\* Clients that issue requests concurrently; client i authenticates as user i
Clients == {"u1", "u2"}

\* ------------------------------------------------------------------------
\* Tables
\* ------------------------------------------------------------------------
Tables == {"users", "patients", "encounters", "pharmacy_items"}

\* Row ids present from the start (1 belongs to A, 2 to B); MaxRows bounds
\* the rows a table can hold, so one more row can be inserted per table.
SeedIds == {1, 2}
MaxRows == 3
Ids == 1..MaxRows

\* the value of a slot that holds no row
NoRow == [center |-> "none", val |-> 0, is_superadmin |-> FALSE]

SeedRow(id) == [center |-> IF id = 1 THEN "A" ELSE "B", val |-> 0, is_superadmin |-> FALSE]

VARIABLES
    sess,   \* the session variables of the shared connection: app.user_id, app.center_id
    tbl,    \* tbl[t][id]: the row, or NoRow when no such row exists
    pc,     \* pc[c]: position of client c's request in middleware / handler
    req,    \* req[c]: the request in flight: procedure and input
    resp,   \* resp[c]: what the procedure returned to the caller
    invoices,       \* invoices[v]: total_amount of invoice v, in cents
    invoice_items,  \* invoice_items[i]: the line item in slot i, or NoItem
    pharmacy_item,          \* the pharmacy item: does it exist, its current_stock
    pharmacy_transactions,  \* the ledger of the item, in insertion order
    txreq,                  \* txreq[c]: client c's createTransaction request in flight
    txresp,                 \* txresp[c]: what that request returned
    medical_acts,           \* medical_acts[i]: the act in slot i, or NoAct
    encryption_key,         \* system_settings 'encryption' ->> 'encryption_key', or NoKey
    pgp_call,               \* the last PGPService call: function, arguments, results
    appointments,           \* appointments[i]: the row in slot i, or NoAppt
    appt_resp,              \* what the last appointments procedure returned
    audit_logs,             \* the rows of audit_logs, in insertion order
    stmt,                   \* the last SQL statement of SpecAudit and how it ended
    password,               \* the password handed to validatePasswordStrength
    validation,             \* what validatePasswordStrength returned for it
    paid_invoice,           \* the invoice payments are added to: total, paid_amount, status
    payments,               \* the rows of payments for that invoice, in insertion order
    payreq,                 \* payreq[c]: client c's addPayment request in flight
    file_stores,            \* file_stores[i]: the store in slot i, or NoStore
    fsreq                   \* fsreq[c]: client c's fileStores request in flight

\* what the actions of each specification leave alone
nonIsoVars == <<invoices, invoice_items, pharmacy_item, pharmacy_transactions, txreq, txresp,
                medical_acts, encryption_key, pgp_call, appointments, appt_resp,
    audit_logs, stmt,
    password, validation, paid_invoice, payments, payreq, file_stores, fsreq>>
nonInvVars == <<sess, tbl, pc, req, resp, pharmacy_item, pharmacy_transactions, txreq, txresp,
                medical_acts, encryption_key, pgp_call, appointments, appt_resp,
    audit_logs, stmt,
    password, validation, paid_invoice, payments, payreq, file_stores, fsreq>>
nonStockVars == <<sess, tbl, pc, req, resp, invoices, invoice_items, medical_acts,
                  encryption_key, pgp_call, appointments, appt_resp,
    audit_logs, stmt,
    password, validation, paid_invoice, payments, payreq, file_stores, fsreq>>
nonActVars == <<sess, tbl, pc, req, resp, invoices, invoice_items, pharmacy_item,
                pharmacy_transactions, txreq, txresp, encryption_key, pgp_call, appointments,
                appt_resp,
    audit_logs, stmt,
    password, validation, paid_invoice, payments, payreq, file_stores, fsreq>>
nonPgpVars == <<sess, tbl, pc, req, resp, invoices, invoice_items, pharmacy_item,
                pharmacy_transactions, txreq, txresp, medical_acts, appointments, appt_resp,
    audit_logs, stmt,
    password, validation, paid_invoice, payments, payreq, file_stores, fsreq>>
nonApptVars == <<sess, tbl, pc, req, resp, invoices, invoice_items, pharmacy_item,
                 pharmacy_transactions, txreq, txresp, medical_acts, pgp_call,
    audit_logs, stmt,
    password, validation, paid_invoice, payments, payreq, file_stores, fsreq>>
nonAuditVars == <<pc, req, resp, invoices, invoice_items, pharmacy_item, pharmacy_transactions,
                  txreq, txresp, medical_acts, encryption_key, pgp_call, appointments,
                  appt_resp,
    password, validation, paid_invoice, payments, payreq, file_stores, fsreq>>
nonPwdVars == <<sess, tbl, pc, req, resp, invoices, invoice_items, pharmacy_item,
    pharmacy_transactions, txreq, txresp, medical_acts, encryption_key, pgp_call,
    appointments, appt_resp, audit_logs, stmt, paid_invoice, payments, payreq,
    file_stores, fsreq>>
nonPayVars == <<sess, tbl, pc, req, resp, invoices, invoice_items, pharmacy_item,
    pharmacy_transactions, txreq, txresp, medical_acts, encryption_key, pgp_call,
    appointments, appt_resp, audit_logs, stmt, password, validation, file_stores,
    fsreq>>
nonFsVars == <<sess, tbl, pc, req, resp, invoices, invoice_items, pharmacy_item,
    pharmacy_transactions, txreq, txresp, medical_acts, encryption_key, pgp_call,
    appointments, appt_resp, audit_logs, stmt, password, validation, paid_invoice,
    payments, payreq>>
vars == <<sess, tbl, pc, req, resp, invoices, invoice_items, pharmacy_item,
          pharmacy_transactions, txreq, txresp, medical_acts, encryption_key, pgp_call,
          appointments, appt_resp,
    audit_logs, stmt,
    password, validation, paid_invoice, payments, payreq, file_stores, fsreq>>

NoReq == [op |-> "none", auth |-> FALSE, id |-> 0, centerId |-> NULL]
NoResp == [status |-> "none", rows |-> {}]

\* ------------------------------------------------------------------------
\* SQL helpers
\* ------------------------------------------------------------------------
\* SQL equality: NULL = x is not true
SqlEq(a, b) == a # NULL /\ b # NULL /\ a = b

\* get_user_center_id(): NULLIF(current_setting('app.center_id', TRUE), '')
get_user_center_id(s) == s.center_id

\* get_current_user_id(): NULLIF(current_setting('app.user_id', TRUE), '')
get_current_user_id(s) == s.user_id

\* ALTER TABLE ... ENABLE ROW LEVEL SECURITY
RlsEnabled == {"users", "patients", "appointments", "invoices", "documents",
               "medical_acts", "prescriptions"}

\* CREATE POLICY ... USING (...): may the session see / target the row
PolicyUsing(t, row, s) ==
    IF t \notin RlsEnabled THEN TRUE
    ELSE IF t = "users"
         THEN row.is_superadmin \/ SqlEq(row.center, get_user_center_id(s))
         ELSE SqlEq(row.center, get_user_center_id(s))

\* CREATE POLICY ... WITH CHECK (...): may the session store the new row
PolicyCheck(t, row, s) ==
    IF t \notin RlsEnabled THEN TRUE
    ELSE SqlEq(row.center, get_user_center_id(s))

Present(t) == {id \in Ids : tbl[t][id] # NoRow}

\* SELECT * FROM t: the ids of the rows the session gets back
Select(t, s) == {id \in Present(t) : PolicyUsing(t, tbl[t][id], s)}

CentersOf(t, ids) == {tbl[t][id].center : id \in ids}

FreeIds(t) == Ids \ Present(t)

\* ------------------------------------------------------------------------
\* Initial state
\* ------------------------------------------------------------------------
InitIso ==
    /\ sess = [user_id |-> NULL, center_id |-> NULL]
    /\ tbl = [t \in Tables |-> [id \in Ids |-> IF id \in SeedIds THEN SeedRow(id) ELSE NoRow]]
    /\ pc = [c \in Clients |-> "idle"]
    /\ req = [c \in Clients |-> NoReq]
    /\ resp = [c \in Clients |-> NoResp]
    /\ invoices = <<>>
    /\ invoice_items = <<>>
    /\ pharmacy_item = <<>>
    /\ pharmacy_transactions = <<>>
    /\ txreq = <<>>
    /\ txresp = <<>>
    /\ medical_acts = <<>>
    /\ encryption_key = <<>>
    /\ pgp_call = <<>>
    /\ appointments = <<>>
    /\ appt_resp = <<>>
    /\ audit_logs = <<>>
    /\ stmt = <<>>
    /\ password = <<>>
    /\ validation = <<>>
    /\ paid_invoice = <<>>
    /\ payments = <<>>
    /\ payreq = <<>>
    /\ file_stores = <<>>
    /\ fsreq = <<>>

\* ------------------------------------------------------------------------
\* Requests
\* ------------------------------------------------------------------------
ProtectedOps == {"patients.list", "patients.update", "encounters.update",
                 "pharmacyItems.list", "pharmacyItems.getStock"}
PublicOps == {"auth.register"}

\* procedures that only read
ReadOps == {"patients.list", "pharmacyItems.list", "pharmacyItems.getStock"}

\* procedures whose input carries a record id / an optional centerId
OpsWithId == {"patients.update", "encounters.update", "pharmacyItems.getStock"}
OpsWithCenter == {"pharmacyItems.list", "auth.register"}

Requests ==
    {[op |-> o, auth |-> a, id |-> i, centerId |-> ce] :
        o \in ProtectedOps \cup PublicOps, a \in BOOLEAN,
        i \in SeedIds \cup {0}, ce \in Centers \cup {NULL}}

WellFormed(rq) ==
    /\ (rq.op \in OpsWithId) = (rq.id # 0)
    /\ (rq.op \notin OpsWithCenter) => rq.centerId = NULL
    /\ (rq.op \in PublicOps) => ~rq.auth

Goto(c, l) == pc' = [pc EXCEPT ![c] = l]

Reply(c, st, rs) ==
    /\ pc' = [pc EXCEPT ![c] = "done"]
    /\ resp' = [resp EXCEPT ![c] = [status |-> st, rows |-> rs]]

\* A request arrives. requireUser: no ctx.user -> UNAUTHORIZED before anything else.
\* Public procedures have no middleware: the handler runs at once.
Start(c, rq) ==
    /\ pc[c] = "idle"
    /\ WellFormed(rq)
    /\ req' = [req EXCEPT ![c] = rq]
    /\ IF rq.op \in PublicOps
       THEN /\ Goto(c, "h1") /\ UNCHANGED resp
       ELSE IF ~rq.auth
            THEN Reply(c, "UNAUTHORIZED", {})
            ELSE /\ Goto(c, "setUser") /\ UNCHANGED resp
    /\ UNCHANGED <<sess, tbl>>
    /\ UNCHANGED nonIsoVars

\* setRLSContext, first statement: SET app.user_id = '<ctx.user.id>'
SetUserId(c) ==
    /\ pc[c] = "setUser"
    /\ sess' = [sess EXCEPT !.user_id = c]
    /\ Goto(c, "setCenter")
    /\ UNCHANGED <<tbl, req, resp>>
    /\ UNCHANGED nonIsoVars

\* setRLSContext, second statement: SET app.center_id = '<ctx.user.centerId>',
\* then requireUser calls next() and the handler starts
SetCenterId(c) ==
    /\ pc[c] = "setCenter"
    /\ sess' = [sess EXCEPT !.center_id = UserCenterId[c]]
    /\ Goto(c, "h1")
    /\ UNCHANGED <<tbl, req, resp>>
    /\ UNCHANGED nonIsoVars

\* The response has been sent; nothing resets the session.
Finish(c) ==
    /\ pc[c] = "done"
    /\ pc' = [pc EXCEPT ![c] = "idle"]
    /\ req' = [req EXCEPT ![c] = NoReq]
    /\ resp' = [resp EXCEPT ![c] = NoResp]
    /\ UNCHANGED <<sess, tbl>>
    /\ UNCHANGED nonIsoVars

\* patients.list: SELECT * FROM patients (filtered by the policy only)
PatientsList(c) ==
    /\ pc[c] = "h1" /\ req[c].op = "patients.list"
    /\ Reply(c, "ok", CentersOf("patients", Select("patients", sess)))
    /\ UNCHANGED <<sess, tbl, req>>
    /\ UNCHANGED nonIsoVars

\* db.getPatientById: SELECT ... WHERE id = $1 LIMIT 1, as the session sees it
ById(t, id, s) == {i \in Select(t, s) : i = id}

\* UPDATE t SET ... WHERE id = $1 RETURNING *: the rows the policy lets the
\* session target are changed; the others are silently skipped
UpdateRow(t, id, s) ==
    [tbl EXCEPT ![t] = [i \in Ids |->
        IF i \in ById(t, id, s) THEN [tbl[t][i] EXCEPT !.val = 1] ELSE tbl[t][i]]]

\* patients.update, first statement: db.getPatientById; NOT_FOUND when no row
PatientsUpdateGet(c) ==
    /\ pc[c] = "h1" /\ req[c].op = "patients.update"
    /\ IF ById("patients", req[c].id, sess) = {}
       THEN Reply(c, "NOT_FOUND", {})
       ELSE Goto(c, "h2") /\ UNCHANGED resp
    /\ UNCHANGED <<sess, tbl, req>>
    /\ UNCHANGED nonIsoVars

\* patients.update, second statement: db.updatePatient; no row returned ->
\* INTERNAL_SERVER_ERROR
PatientsUpdateSet(c) ==
    /\ pc[c] = "h2" /\ req[c].op = "patients.update"
    /\ tbl' = UpdateRow("patients", req[c].id, sess)
    /\ IF ById("patients", req[c].id, sess) = {}
       THEN Reply(c, "INTERNAL_SERVER_ERROR", {})
       ELSE Reply(c, "ok", CentersOf("patients", ById("patients", req[c].id, sess)))
    /\ UNCHANGED <<sess, req>>
    /\ UNCHANGED nonIsoVars

\* encounters.update, first statement: select().from(encounters).where(id = $1)
EncountersUpdateGet(c) ==
    /\ pc[c] = "h1" /\ req[c].op = "encounters.update"
    /\ IF ById("encounters", req[c].id, sess) = {}
       THEN Reply(c, "NOT_FOUND", {})
       ELSE Goto(c, "h2") /\ UNCHANGED resp
    /\ UNCHANGED <<sess, tbl, req>>
    /\ UNCHANGED nonIsoVars

\* encounters.update, second statement: update(encounters).set(..).where(id = $1)
EncountersUpdateSet(c) ==
    /\ pc[c] = "h2" /\ req[c].op = "encounters.update"
    /\ tbl' = UpdateRow("encounters", req[c].id, sess)
    /\ IF ById("encounters", req[c].id, sess) = {}
       THEN Reply(c, "INTERNAL_SERVER_ERROR", {})
       ELSE Reply(c, "ok", CentersOf("encounters", ById("encounters", req[c].id, sess)))
    /\ UNCHANGED <<sess, req>>
    /\ UNCHANGED nonIsoVars

\* centerId = input.centerId || ctx.user.centerId
ListCenter(c) == IF req[c].centerId # NULL THEN req[c].centerId ELSE UserCenterId[c]

\* pharmacyItems.list: FORBIDDEN without a center unless superadmin, else
\* SELECT * FROM pharmacy_items WHERE center_id = <centerId>
PharmacyItemsList(c) ==
    /\ pc[c] = "h1" /\ req[c].op = "pharmacyItems.list"
    /\ IF ListCenter(c) = NULL /\ ~IsSuperadmin[c]
       THEN Reply(c, "FORBIDDEN", {})
       ELSE Reply(c, "ok", CentersOf("pharmacy_items",
                {i \in Select("pharmacy_items", sess) :
                    SqlEq(tbl["pharmacy_items"][i].center, ListCenter(c))}))
    /\ UNCHANGED <<sess, tbl, req>>
    /\ UNCHANGED nonIsoVars

\* pharmacyItems.getStock: SELECT * FROM pharmacy_items WHERE id = $1 LIMIT 1
PharmacyItemsGetStock(c) ==
    /\ pc[c] = "h1" /\ req[c].op = "pharmacyItems.getStock"
    /\ IF ById("pharmacy_items", req[c].id, sess) = {}
       THEN Reply(c, "NOT_FOUND", {})
       ELSE Reply(c, "ok", CentersOf("pharmacy_items", ById("pharmacy_items", req[c].id, sess)))
    /\ UNCHANGED <<sess, tbl, req>>
    /\ UNCHANGED nonIsoVars

\* auth.register, db.getUserByUsername then db.getUserByEmail: the name and the
\* address are new, so neither finds a row under any policy; both statements
\* run, and return, under whatever the session holds
RegisterGetUserByUsername(c) ==
    /\ pc[c] = "h1" /\ req[c].op = "auth.register"
    /\ Goto(c, "h2")
    /\ UNCHANGED <<sess, tbl, req, resp>>
    /\ UNCHANGED nonIsoVars

RegisterGetUserByEmail(c) ==
    /\ pc[c] = "h2" /\ req[c].op = "auth.register"
    /\ Goto(c, "h3")
    /\ UNCHANGED <<sess, tbl, req, resp>>
    /\ UNCHANGED nonIsoVars

\* auth.register, db.createUser: INSERT INTO users (.., center_id) VALUES
\* (.., input.centerId || null); the policy's WITH CHECK decides
NewUser(c) == [center |-> req[c].centerId, val |-> 0, is_superadmin |-> FALSE]

RegisterCreateUser(c) ==
    /\ pc[c] = "h3" /\ req[c].op = "auth.register"
    /\ IF PolicyCheck("users", NewUser(c), sess)
       THEN /\ \E i \in FreeIds("users") :
                  /\ \A j \in FreeIds("users") : i <= j
                  /\ tbl' = [tbl EXCEPT !["users"][i] = NewUser(c)]
            /\ Reply(c, "ok", {req[c].centerId})
       ELSE /\ Reply(c, "INTERNAL_SERVER_ERROR", {})
            /\ UNCHANGED tbl
    /\ UNCHANGED <<sess, req>>
    /\ UNCHANGED nonIsoVars

NextIso ==
    \E c \in Clients :
        \/ \E rq \in Requests : Start(c, rq)
        \/ SetUserId(c)
        \/ SetCenterId(c)
        \/ PatientsList(c)
        \/ PatientsUpdateGet(c)
        \/ PatientsUpdateSet(c)
        \/ EncountersUpdateGet(c)
        \/ EncountersUpdateSet(c)
        \/ PharmacyItemsList(c)
        \/ PharmacyItemsGetStock(c)
        \/ RegisterGetUserByUsername(c)
        \/ RegisterGetUserByEmail(c)
        \/ RegisterCreateUser(c)
        \/ Finish(c)

SpecIso == InitIso /\ [][NextIso]_vars

\* ------------------------------------------------------------------------
\* Tenant isolation properties (SpecIso)
\* ------------------------------------------------------------------------
\* positions at which a request's next step is a statement of its handler
HandlerPcs == {"h1", "h2", "h3"}

\* C1: every successful read through a protected procedure returns only rows
\* owned by the caller's center, whatever centerId or record id is supplied.
C1_ReadsReturnOwnCenterOnly ==
    \A c \in Clients :
        (pc[c] = "done" /\ req[c].op \in ReadOps /\ resp[c].status = "ok")
            => resp[c].rows \subseteq {UserCenterId[c]}

\* C2: every statement a protected request's handler issues is evaluated with
\* that request's own user id and center id in the session.
C2_QueryUnderOwnContext ==
    [][\A c \in Clients :
          (req[c].op \in ProtectedOps /\ pc[c] \in HandlerPcs /\ pc'[c] # pc[c])
              => (sess.user_id = c /\ sess.center_id = UserCenterId[c])]_vars

\* C3: a request for which no tenant context was established never gets a
\* data-access statement executed: its first statement is rejected with
\* ContextMissing, no row returned or changed.
C3_NoContextIsRejected ==
    \A c \in Clients :
        req[c].op \in PublicOps =>
            \/ pc[c] = "h1"
            \/ pc[c] = "done" /\ resp[c].status = "ContextMissing"

\* C4: a step of a protected request of a user of center A creates or changes
\* only rows owned by A; rows of another center stay as they were.
C4_MutatesOwnCenterOnly ==
    [][\A c \in Clients : \A t \in Tables : \A i \in Ids :
          (req[c].op \in ProtectedOps /\ pc'[c] # pc[c] /\ tbl'[t][i] # tbl[t][i])
              => /\ tbl'[t][i].center = UserCenterId[c]
                 /\ tbl[t][i] = NoRow \/ tbl[t][i].center = UserCenterId[c]]_vars

\* C5: once a user's request has finished, the session no longer holds that
\* request's app.user_id / app.center_id.
C5_ScopeEndsWithRequest ==
    \A c \in Clients :
        pc[c] = "idle" => (sess.user_id # c /\ sess.center_id # UserCenterId[c])

\* ------------------------------------------------------------------------
\* SpecInv: invoice_items and trg_invoice_recalc
\* ------------------------------------------------------------------------
\* Statements are issued by a session that may see and change both invoices
\* (they belong to one center), so the policy on invoices filters nothing.
Invoices == {"X", "Y"}

\* MaxItems bounds the line items that exist at one time
MaxItems == 3
ItemIds == 1..MaxItems

\* quantity NUMERIC(10,2) in hundredths, unit_price NUMERIC(10,2) in cents
Quantities == {100, 200}
UnitPrices == {2500, 5000}

NoItem == [invoice_id |-> "none", quantity |-> 0, unit_price |-> 0]

\* rounding of a NUMERIC(10,2) column: n / d to the nearest unit, half away
\* from zero (n >= 0)
RoundDiv(n, d) == (2 * n + d) \div (2 * d)

\* total_price NUMERIC(10,2) GENERATED ALWAYS AS (quantity * unit_price), in cents
total_price(it) == RoundDiv(it.quantity * it.unit_price, 100)

RECURSIVE SumTotalPrice(_, _)
SumTotalPrice(items, ids) ==
    IF ids = {} THEN 0
    ELSE LET i == CHOOSE j \in ids : TRUE
         IN total_price(items[i]) + SumTotalPrice(items, ids \ {i})

ItemsOf(items, v) == {i \in ItemIds : items[i].invoice_id = v}

\* recalc_invoice_totals: UPDATE invoices SET total_amount = (SELECT
\* COALESCE(SUM(total_price), 0) FROM invoice_items WHERE invoice_id =
\* target_id) WHERE id = target_id, over the items as the statement left them
recalc_invoice_totals(inv, items, target_id) ==
    [inv EXCEPT ![target_id] = SumTotalPrice(items, ItemsOf(items, target_id))]

InitInv ==
    /\ invoices = [v \in Invoices |-> 0]
    /\ invoice_items = [i \in ItemIds |-> NoItem]
    /\ sess = [user_id |-> NULL, center_id |-> NULL]
    /\ tbl = <<>>
    /\ pc = <<>>
    /\ req = <<>>
    /\ resp = <<>>
    /\ pharmacy_item = <<>>
    /\ pharmacy_transactions = <<>>
    /\ txreq = <<>>
    /\ txresp = <<>>
    /\ medical_acts = <<>>
    /\ encryption_key = <<>>
    /\ pgp_call = <<>>
    /\ appointments = <<>>
    /\ appt_resp = <<>>
    /\ audit_logs = <<>>
    /\ stmt = <<>>
    /\ password = <<>>
    /\ validation = <<>>
    /\ paid_invoice = <<>>
    /\ payments = <<>>
    /\ payreq = <<>>
    /\ file_stores = <<>>
    /\ fsreq = <<>>

\* INSERT INTO invoice_items (invoice_id, quantity, unit_price) VALUES (..);
\* AFTER INSERT: target_id := NEW.invoice_id
InsertItem(i, v, q, p) ==
    /\ invoice_items[i] = NoItem
    /\ LET items == [invoice_items EXCEPT ![i] = [invoice_id |-> v, quantity |-> q, unit_price |-> p]]
       IN /\ invoice_items' = items
          /\ invoices' = recalc_invoice_totals(invoices, items, v)
    /\ UNCHANGED nonInvVars

\* UPDATE invoice_items SET invoice_id = .., quantity = .., unit_price = ..
\* WHERE id = i; AFTER UPDATE: target_id := NEW.invoice_id
UpdateItem(i, v, q, p) ==
    /\ invoice_items[i] # NoItem
    /\ LET items == [invoice_items EXCEPT ![i] = [invoice_id |-> v, quantity |-> q, unit_price |-> p]]
       IN /\ invoice_items' = items
          /\ invoices' = recalc_invoice_totals(invoices, items, v)
    /\ UNCHANGED nonInvVars

\* DELETE FROM invoice_items WHERE id = i; AFTER DELETE: target_id := OLD.invoice_id
DeleteItem(i) ==
    /\ invoice_items[i] # NoItem
    /\ LET items == [invoice_items EXCEPT ![i] = NoItem]
       IN /\ invoice_items' = items
          /\ invoices' = recalc_invoice_totals(invoices, items, invoice_items[i].invoice_id)
    /\ UNCHANGED nonInvVars

NextInv ==
    \E i \in ItemIds :
        \/ \E v \in Invoices, q \in Quantities, p \in UnitPrices : InsertItem(i, v, q, p)
        \/ \E v \in Invoices, q \in Quantities, p \in UnitPrices : UpdateItem(i, v, q, p)
        \/ DeleteItem(i)

SpecInv == InitInv /\ [][NextInv]_vars

\* quantity x unit_price of the items of invoice v, exact, in 1/100 cent
RECURSIVE ExactSum(_, _)
ExactSum(items, ids) ==
    IF ids = {} THEN 0
    ELSE LET i == CHOOSE j \in ids : TRUE
         IN items[i].quantity * items[i].unit_price + ExactSum(items, ids \ {i})

\* C6: at the end of every line-item statement each invoice's total_amount is
\* the sum of quantity x unit_price over the items that belong to it now.
C6_TotalIsSumOfItems ==
    \A v \in Invoices :
        100 * invoices[v] = ExactSum(invoice_items, ItemsOf(invoice_items, v))

\* C27: a statement that moves a line item from one invoice to another leaves
\* both invoices with a total_amount equal to the sum of total_price over the
\* items each of them holds after the statement.
C27_MovedItemRecomputesBoth ==
    [][\A i \in ItemIds :
          (/\ invoice_items[i] # NoItem
           /\ invoice_items'[i] # NoItem
           /\ invoice_items[i].invoice_id # invoice_items'[i].invoice_id)
          => \A v \in {invoice_items[i].invoice_id, invoice_items'[i].invoice_id} :
                 invoices'[v] = SumTotalPrice(invoice_items', ItemsOf(invoice_items', v))]_vars

\* ------------------------------------------------------------------------
\* SpecStock: pharmacy_items, pharmacy_transactions and trg_pharmacy_upd
\* ------------------------------------------------------------------------
\* MaxTx bounds the length of the ledger
MaxTx == 3

\* currentStock: z.number().int().min(0).optional().default(0)
InitialStocks == {0, 10}

\* quantity: z.number().int().positive()
TxQuantities == {10, 15}

TransactionTypes == {"in", "out"}

\* pharmacyItemsRouter.createTransaction checks the stock; pharmacyRouter
\* .createTransaction (mounted as pharmacy.createTransaction) does not
TxRoutes == {"pharmacyItems.createTransaction", "pharmacy.createTransaction"}

NoTx == [pc |-> "idle", route |-> "none", transactionType |-> "none", quantity |-> 0, currentStock |-> 0]

InitStock ==
    /\ pharmacy_item = [exists |-> FALSE, current_stock |-> 0]
    /\ pharmacy_transactions = <<>>
    /\ txreq = [c \in Clients |-> NoTx]
    /\ txresp = [c \in Clients |-> "none"]
    /\ sess = [user_id |-> NULL, center_id |-> NULL]
    /\ tbl = <<>>
    /\ pc = <<>>
    /\ req = <<>>
    /\ resp = <<>>
    /\ invoices = <<>>
    /\ invoice_items = <<>>
    /\ medical_acts = <<>>
    /\ encryption_key = <<>>
    /\ pgp_call = <<>>
    /\ appointments = <<>>
    /\ appt_resp = <<>>
    /\ audit_logs = <<>>
    /\ stmt = <<>>
    /\ password = <<>>
    /\ validation = <<>>
    /\ paid_invoice = <<>>
    /\ payments = <<>>
    /\ payreq = <<>>
    /\ file_stores = <<>>
    /\ fsreq = <<>>

\* pharmacyItems.create: INSERT INTO pharmacy_items (.., current_stock)
\* VALUES (.., input.currentStock || 0); CONFLICT when the item exists
CreateItem(n) ==
    /\ ~pharmacy_item.exists
    /\ pharmacy_item' = [exists |-> TRUE, current_stock |-> n]
    /\ UNCHANGED <<pharmacy_transactions, txreq, txresp>>
    /\ UNCHANGED nonStockVars

\* fn_update_pharmacy_stock: current_stock + (CASE WHEN transaction_type =
\* 'in' THEN quantity ELSE -quantity END)
fn_update_pharmacy_stock(stock, ty, q) == IF ty = "in" THEN stock + q ELSE stock - q

\* INSERT INTO pharmacy_transactions (item_id, transaction_type, quantity)
\* with the AFTER INSERT trigger, one statement
InsertTransaction(ty, q) ==
    /\ pharmacy_transactions' = Append(pharmacy_transactions, [transaction_type |-> ty, quantity |-> q])
    /\ pharmacy_item' = [pharmacy_item EXCEPT
            !.current_stock = fn_update_pharmacy_stock(pharmacy_item.current_stock, ty, q)]

TxReply(c, st) ==
    /\ txreq' = [txreq EXCEPT ![c].pc = "done"]
    /\ txresp' = [txresp EXCEPT ![c] = st]

\* a createTransaction request arrives on one of the two routes
StartTx(c, r, ty, q) ==
    /\ txreq[c].pc = "idle"
    /\ pharmacy_item.exists
    /\ Len(pharmacy_transactions) < MaxTx
    /\ txreq' = [txreq EXCEPT ![c] = [pc |-> IF r = "pharmacy.createTransaction" THEN "insert" ELSE "select",
                                      route |-> r, transactionType |-> ty, quantity |-> q, currentStock |-> 0]]
    /\ UNCHANGED <<pharmacy_item, pharmacy_transactions, txresp>>
    /\ UNCHANGED nonStockVars

\* pharmacyItems.createTransaction: select the item, then for an "out"
\* BAD_REQUEST when currentStock < input.quantity
CheckStock(c) ==
    /\ txreq[c].pc = "select"
    /\ IF ~pharmacy_item.exists
       THEN TxReply(c, "NOT_FOUND")
       ELSE IF txreq[c].transactionType = "out" /\ pharmacy_item.current_stock < txreq[c].quantity
       THEN TxReply(c, "BAD_REQUEST")
       ELSE /\ txreq' = [txreq EXCEPT ![c].pc = "insert",
                                      ![c].currentStock = pharmacy_item.current_stock]
            /\ UNCHANGED txresp
    /\ UNCHANGED <<pharmacy_item, pharmacy_transactions>>
    /\ UNCHANGED nonStockVars

\* either route: insert(pharmacyTransactions).values({itemId, transactionType, quantity})
\* (item_id REFERENCES pharmacy_items(id): the insert fails when the item is gone)
InsertTx(c) ==
    /\ txreq[c].pc = "insert"
    /\ IF pharmacy_item.exists
       THEN /\ InsertTransaction(txreq[c].transactionType, txreq[c].quantity)
            /\ TxReply(c, "ok")
       ELSE /\ TxReply(c, "INTERNAL_SERVER_ERROR")
            /\ UNCHANGED <<pharmacy_item, pharmacy_transactions>>
    /\ UNCHANGED nonStockVars

\* the response has been sent
FinishTx(c) ==
    /\ txreq[c].pc = "done"
    /\ txreq' = [txreq EXCEPT ![c] = NoTx]
    /\ txresp' = [txresp EXCEPT ![c] = "none"]
    /\ UNCHANGED <<pharmacy_item, pharmacy_transactions>>
    /\ UNCHANGED nonStockVars

NextStock ==
    \/ \E n \in InitialStocks : CreateItem(n)
    \/ \E c \in Clients :
          \/ \E r \in TxRoutes, ty \in TransactionTypes, q \in TxQuantities : StartTx(c, r, ty, q)
          \/ CheckStock(c)
          \/ InsertTx(c)
          \/ FinishTx(c)

SpecStock == InitStock /\ [][NextStock]_vars

\* ------------------------------------------------------------------------
\* Stock properties (SpecStock)
\* ------------------------------------------------------------------------
\* C7: when the requests in flight all came through the route that checks the
\* stock, the insert of a request that passed the check never takes a stock
\* that is not negative below 0, however the requests interleave.
C7_CheckedInsertKeepsStockNonNegative ==
    [][\A c \in Clients :
          (/\ \A d \in Clients : txreq[d].route = "pharmacyItems.createTransaction"
           /\ txreq[c].pc = "insert" /\ txreq'[c].pc = "done"
           /\ pharmacy_item.current_stock >= 0)
              => pharmacy_item'.current_stock >= 0]_vars

\* C8: on every route, the step that completes an outbound request whose
\* quantity exceeds the current stock rejects it and leaves the stock and
\* the ledger as they were.
C8_OutAboveStockIsRejected ==
    [][\A c \in Clients :
          (/\ txreq[c].transactionType = "out"
           /\ txreq[c].quantity > pharmacy_item.current_stock
           /\ txreq[c].pc \in {"select", "insert"} /\ txreq'[c].pc = "done")
              => (/\ txresp'[c] = "BAD_REQUEST"
                  /\ pharmacy_item' = pharmacy_item
                  /\ pharmacy_transactions' = pharmacy_transactions)]_vars

\* signed sum of the ledger: +quantity for 'in', -quantity for 'out'
RECURSIVE LedgerSum(_)
LedgerSum(ledger) ==
    IF ledger = <<>> THEN 0
    ELSE (IF Head(ledger).transaction_type = "in"
          THEN Head(ledger).quantity ELSE 0 - Head(ledger).quantity)
         + LedgerSum(Tail(ledger))

\* C9: the item's current_stock is the signed sum of its ledger entries.
C9_StockIsLedgerSum ==
    pharmacy_item.exists => pharmacy_item.current_stock = LedgerSum(pharmacy_transactions)

\* ------------------------------------------------------------------------
\* SpecAct: medical_acts and trg_medact_comm
\* ------------------------------------------------------------------------
\* MaxActs bounds the medical acts that exist at one time
MaxActs == 2
ActIds == 1..MaxActs

\* a rate column that holds SQL NULL
NullRate == -1

\* price NUMERIC(10,2) in cents: 0.10, 0.27, 100.00
Prices == {10, 27, 10000}

\* commission_*_rate NUMERIC(5,4) in 1/10000: NULL, 0.05, 0.15
Rates == {NullRate, 500, 1500}

\* amounts a statement tries to store, in cents
ClientAmounts == {0, 777}

NoAct == [price |-> 0, commission_internal_rate |-> 0, commission_external_rate |-> 0,
          commission_internal_amount |-> 0, commission_external_amount |-> 0]

\* COALESCE(rate, 0)
CoalesceRate(r) == IF r = NullRate THEN 0 ELSE r

\* NEW.price * COALESCE(NEW.commission_*_rate, 0) assigned to a NUMERIC(10,2)
\* column: cents x 1/10000 rounded to cents
CommissionAmount(price, rate) == RoundDiv(price * CoalesceRate(rate), 10000)

\* a BEFORE trigger that leaves NEW as the statement gave it
KeepClientAmounts(new) == new

\* compute_act_commissions: BEFORE INSERT OR UPDATE, both amounts of NEW are
\* overwritten
compute_act_commissions(new) ==
    [new EXCEPT
        !.commission_internal_amount = CommissionAmount(new.price, new.commission_internal_rate),
        !.commission_external_amount = CommissionAmount(new.price, new.commission_external_rate)]

NewAct(p, ri, re, a) ==
    [price |-> p, commission_internal_rate |-> ri, commission_external_rate |-> re,
     commission_internal_amount |-> a, commission_external_amount |-> a]

InitAct ==
    /\ medical_acts = [i \in ActIds |-> NoAct]
    /\ sess = [user_id |-> NULL, center_id |-> NULL]
    /\ tbl = <<>>
    /\ pc = <<>>
    /\ req = <<>>
    /\ resp = <<>>
    /\ invoices = <<>>
    /\ invoice_items = <<>>
    /\ pharmacy_item = <<>>
    /\ pharmacy_transactions = <<>>
    /\ txreq = <<>>
    /\ txresp = <<>>
    /\ encryption_key = <<>>
    /\ pgp_call = <<>>
    /\ appointments = <<>>
    /\ appt_resp = <<>>
    /\ audit_logs = <<>>
    /\ stmt = <<>>
    /\ password = <<>>
    /\ validation = <<>>
    /\ paid_invoice = <<>>
    /\ payments = <<>>
    /\ payreq = <<>>
    /\ file_stores = <<>>
    /\ fsreq = <<>>

\* INSERT INTO medical_acts (price, commission_*_rate, commission_*_amount)
InsertAct(i, p, ri, re, a) ==
    /\ medical_acts[i] = NoAct
    /\ medical_acts' = [medical_acts EXCEPT ![i] = compute_act_commissions(NewAct(p, ri, re, a))]
    /\ UNCHANGED nonActVars

\* UPDATE medical_acts SET price = .., commission_*_rate = ..,
\* commission_*_amount = .. WHERE id = i
UpdateAct(i, p, ri, re, a) ==
    /\ medical_acts[i] # NoAct
    /\ medical_acts' = [medical_acts EXCEPT ![i] = compute_act_commissions(NewAct(p, ri, re, a))]
    /\ UNCHANGED nonActVars

\* DELETE FROM medical_acts WHERE id = i
DeleteAct(i) ==
    /\ medical_acts[i] # NoAct
    /\ medical_acts' = [medical_acts EXCEPT ![i] = NoAct]
    /\ UNCHANGED nonActVars

NextAct ==
    \E i \in ActIds :
        \/ \E p \in Prices, ri \in Rates, re \in Rates, a \in ClientAmounts : InsertAct(i, p, ri, re, a)
        \/ \E p \in Prices, ri \in Rates, re \in Rates, a \in ClientAmounts : UpdateAct(i, p, ri, re, a)
        \/ DeleteAct(i)

SpecAct == InitAct /\ [][NextAct]_vars

\* ------------------------------------------------------------------------
\* Commission properties (SpecAct)
\* ------------------------------------------------------------------------
ActsPresent == {i \in ActIds : medical_acts[i] # NoAct}

\* amount (cents) is price (cents) x rate (1/10000, NULL as 0) rounded to
\* the nearest cent, a half going up
IsRoundedProduct(price, rate, amount) ==
    LET x == price * (IF rate = NullRate THEN 0 ELSE rate)
    IN  10000 * amount - 5000 <= x /\ x < 10000 * amount + 5000

\* C10 (as amended): after every insert or update of a medical act, each stored
\* commission amount is price x COALESCE(rate, 0) rounded to two decimals,
\* whatever amounts the statement supplied.
C10_AmountIsRoundedProduct ==
    \A i \in ActsPresent :
        /\ IsRoundedProduct(medical_acts[i].price, medical_acts[i].commission_internal_rate,
                            medical_acts[i].commission_internal_amount)
        /\ IsRoundedProduct(medical_acts[i].price, medical_acts[i].commission_external_rate,
                            medical_acts[i].commission_external_amount)

\* C10 witness: the act of the example (100.00 at 0.15 / 0.05 stored with 15.00
\* / 5.00) next to an act whose products are rounded (0.10 at 0.15 / 0.05
\* stored with 0.02 / 0.01).
C10_Witness ==
    \E i, j \in ActsPresent :
        /\ medical_acts[i] = [price |-> 10000, commission_internal_rate |-> 1500,
                               commission_external_rate |-> 500,
                               commission_internal_amount |-> 1500,
                               commission_external_amount |-> 500]
        /\ medical_acts[j] = [price |-> 10, commission_internal_rate |-> 1500,
                               commission_external_rate |-> 500,
                               commission_internal_amount |-> 2,
                               commission_external_amount |-> 1]

\* C10 (as stated): each stored commission amount equals price x rate exactly.
C10_AmountIsExactProduct ==
    \A i \in ActsPresent :
        /\ medical_acts[i].commission_internal_rate # NullRate =>
              10000 * medical_acts[i].commission_internal_amount
                  = medical_acts[i].price * medical_acts[i].commission_internal_rate
        /\ medical_acts[i].commission_external_rate # NullRate =>
              10000 * medical_acts[i].commission_external_amount
                  = medical_acts[i].price * medical_acts[i].commission_external_rate

\* ------------------------------------------------------------------------
\* Derived fields (SpecStock)
\* ------------------------------------------------------------------------
\* the stock a step starts from: an item that does not exist yet has none
StockBefore == IF pharmacy_item.exists THEN pharmacy_item.current_stock ELSE 0

\* C11: a derived field changes only by recomputation from its sources: the
\* item's current_stock takes a new value only in a step that appends a ledger
\* entry, and then by exactly that entry's signed quantity.
C11_StockChangesOnlyThroughLedger ==
    [][pharmacy_item'.current_stock # StockBefore
          => /\ Len(pharmacy_transactions') = Len(pharmacy_transactions) + 1
             /\ pharmacy_item'.current_stock
                  = StockBefore + LedgerSum(<<pharmacy_transactions'[Len(pharmacy_transactions')]>>)]_vars

\* ------------------------------------------------------------------------
\* SpecPgp: PGPService over encrypt_pgp_data / decrypt_pgp_data
\* ------------------------------------------------------------------------
\* MaxLen bounds the length of a plaintext, BatchLen the fields of a batch
MaxLen == 2
BatchLen == 2

\* a character that trim() removes, and a multi-byte character
Chars == {" ", "é"}

Keys == {"k1", "k2"}

\* no 'encryption' row, or no encryption_key in it
NoKey == "none"

Texts == UNION {[1..n -> Chars] : n \in 0..MaxLen}

\* Values that pass between caller, service and database
Absent == [tag |-> "absent", key |-> "", data |-> <<>>]
Text(t) == [tag |-> "text", key |-> "", data |-> t]
Envelope(k, t) == [tag |-> "envelope", key |-> k, data |-> t]
Malformed == [tag |-> "malformed", key |-> "", data |-> <<>>]
Failure(msg) == [tag |-> "error", key |-> msg, data |-> <<>>]

\* string | null | undefined, and Buffer | null | undefined
OptionalTexts == {Absent} \cup {Text(t) : t \in Texts}
OptionalEnvelopes == {Absent, Malformed} \cup {Envelope(k, t) : k \in Keys, t \in Texts}

\* !plaintext || plaintext.trim().length === 0
IsBlank(v) == v.tag = "absent" \/ \A i \in 1..Len(v.data) : v.data[i] = " "

\* encrypt_pgp_data: pgp_sym_encrypt(data, app_get_encryption_key()); the
\* function is strict, a NULL key gives NULL
encrypt_pgp_data(v, key) == IF key = NoKey THEN Absent ELSE Envelope(key, v.data)

\* decrypt_pgp_data: pgp_sym_decrypt(data, app_get_encryption_key()); NULL
\* for a NULL key, an error for what the key does not open
decrypt_pgp_data(v, key) ==
    IF key = NoKey THEN Absent
    ELSE IF v.tag = "envelope" /\ v.key = key THEN Text(v.data)
    ELSE Failure("Wrong key or corrupt data")

\* PGPService.encrypt
encrypt(v, key) ==
    IF IsBlank(v) THEN Failure("Cannot encrypt empty string")
    ELSE IF encrypt_pgp_data(v, key).tag = "absent" THEN Failure("Encryption failed")
    ELSE encrypt_pgp_data(v, key)

\* PGPService.decrypt
decrypt(v, key) ==
    IF v.tag = "absent" THEN Failure("Cannot decrypt empty buffer")
    ELSE IF decrypt_pgp_data(v, key).tag \in {"absent", "error"} THEN Failure("Decryption failed")
    ELSE decrypt_pgp_data(v, key)

\* an encryptOptional that lets the error of encrypt through
EncryptOptionalRethrows(v, key) == encrypt(v, key)

\* PGPService.encryptOptional: null for a blank input, null when encrypt throws
encryptOptional(v, key) ==
    IF IsBlank(v) THEN Absent
    ELSE IF encrypt(v, key).tag = "error" THEN Absent
    ELSE encrypt(v, key)

\* PGPService.decryptOptional: null for no buffer, null when decrypt throws
decryptOptional(v, key) ==
    IF v.tag = "absent" THEN Absent
    ELSE IF decrypt(v, key).tag = "error" THEN Absent
    ELSE decrypt(v, key)

\* PGPService.encryptBatch / decryptBatch: Promise.all over the Optional calls
encryptBatch(vs, key) == [i \in 1..Len(vs) |-> encryptOptional(vs[i], key)]
decryptBatch(vs, key) == [i \in 1..Len(vs) |-> decryptOptional(vs[i], key)]

NoCall == [fn |-> "none", args |-> <<>>, out |-> <<>>]

InitPgp ==
    /\ encryption_key \in Keys \cup {NoKey}
    /\ pgp_call = NoCall
    /\ sess = [user_id |-> NULL, center_id |-> NULL]
    /\ tbl = <<>>
    /\ pc = <<>>
    /\ req = <<>>
    /\ resp = <<>>
    /\ invoices = <<>>
    /\ invoice_items = <<>>
    /\ pharmacy_item = <<>>
    /\ pharmacy_transactions = <<>>
    /\ txreq = <<>>
    /\ txresp = <<>>
    /\ medical_acts = <<>>
    /\ appointments = <<>>
    /\ appt_resp = <<>>
    /\ audit_logs = <<>>
    /\ stmt = <<>>
    /\ password = <<>>
    /\ validation = <<>>
    /\ paid_invoice = <<>>
    /\ payments = <<>>
    /\ payreq = <<>>
    /\ file_stores = <<>>
    /\ fsreq = <<>>

Called(fn, args, out) == [fn |-> fn, args |-> args, out |-> out]

\* PGPService.updateEncryptionKey: UPDATE system_settings SET value =
\* jsonb_set(value, '{encryption_key}', ..) WHERE key = 'encryption'
UpdateEncryptionKey(k) ==
    /\ encryption_key # NoKey
    /\ encryption_key' = k
    /\ UNCHANGED pgp_call
    /\ UNCHANGED nonPgpVars

CallEncrypt(v) ==
    /\ pgp_call' = Called("encrypt", <<v>>, <<encrypt(v, encryption_key)>>)
    /\ UNCHANGED encryption_key
    /\ UNCHANGED nonPgpVars

CallDecrypt(v) ==
    /\ pgp_call' = Called("decrypt", <<v>>, <<decrypt(v, encryption_key)>>)
    /\ UNCHANGED encryption_key
    /\ UNCHANGED nonPgpVars

\* decrypt(await encrypt(s)); the error of encrypt ends the call
CallRoundTrip(v) ==
    /\ pgp_call' = Called("roundTrip", <<v>>,
                          <<IF encrypt(v, encryption_key).tag = "error"
                            THEN encrypt(v, encryption_key)
                            ELSE decrypt(encrypt(v, encryption_key), encryption_key)>>)
    /\ UNCHANGED encryption_key
    /\ UNCHANGED nonPgpVars

CallEncryptOptional(v) ==
    /\ pgp_call' = Called("encryptOptional", <<v>>, <<encryptOptional(v, encryption_key)>>)
    /\ UNCHANGED encryption_key
    /\ UNCHANGED nonPgpVars

CallDecryptOptional(v) ==
    /\ pgp_call' = Called("decryptOptional", <<v>>, <<decryptOptional(v, encryption_key)>>)
    /\ UNCHANGED encryption_key
    /\ UNCHANGED nonPgpVars

CallEncryptBatch(vs) ==
    /\ pgp_call' = Called("encryptBatch", vs, encryptBatch(vs, encryption_key))
    /\ UNCHANGED encryption_key
    /\ UNCHANGED nonPgpVars

CallDecryptBatch(vs) ==
    /\ pgp_call' = Called("decryptBatch", vs, decryptBatch(vs, encryption_key))
    /\ UNCHANGED encryption_key
    /\ UNCHANGED nonPgpVars

NextPgp ==
    \/ \E k \in Keys : UpdateEncryptionKey(k)
    \/ \E v \in OptionalTexts : CallEncrypt(v)
    \/ \E v \in OptionalEnvelopes : CallDecrypt(v)
    \/ \E v \in OptionalTexts : CallRoundTrip(v)
    \/ \E v \in OptionalTexts : CallEncryptOptional(v)
    \/ \E v \in OptionalEnvelopes : CallDecryptOptional(v)
    \/ \E vs \in [1..BatchLen -> OptionalTexts] : CallEncryptBatch(vs)
    \/ \E vs \in [1..BatchLen -> OptionalEnvelopes] : CallDecryptBatch(vs)

SpecPgp == InitPgp /\ [][NextPgp]_vars

\* ------------------------------------------------------------------------
\* SpecAppt: appointments with notes_encrypted
\* ------------------------------------------------------------------------
\* MaxAppts bounds the appointments that exist
MaxAppts == 2
ApptIds == 1..MaxAppts

\* status TEXT DEFAULT 'pending'; create stores input.status || "pending"
NoAppt == [exists |-> FALSE, notes_encrypted |-> Absent, status |-> "none"]
NoApptResp == [op |-> "none", status |-> "none", id |-> 0, input |-> Absent, notes |-> Absent]

InitAppt ==
    /\ encryption_key \in Keys \cup {NoKey}
    /\ appointments = [i \in ApptIds |-> NoAppt]
    /\ appt_resp = NoApptResp
    /\ audit_logs = <<>>
    /\ stmt = <<>>
    /\ password = <<>>
    /\ validation = <<>>
    /\ paid_invoice = <<>>
    /\ payments = <<>>
    /\ payreq = <<>>
    /\ file_stores = <<>>
    /\ fsreq = <<>>
    /\ pgp_call = <<>>
    /\ sess = [user_id |-> NULL, center_id |-> NULL]
    /\ tbl = <<>>
    /\ pc = <<>>
    /\ req = <<>>
    /\ resp = <<>>
    /\ invoices = <<>>
    /\ invoice_items = <<>>
    /\ pharmacy_item = <<>>
    /\ pharmacy_transactions = <<>>
    /\ txreq = <<>>
    /\ txresp = <<>>
    /\ medical_acts = <<>>

\* input.notes || null
OrNull(v) == IF v.tag = "text" /\ v.data = <<>> THEN Absent ELSE v

\* appointments.create for a patient of the caller's center and a valid time
\* range: notesEncrypted = encryptOptional(input.notes), db.createAppointment
\* ({.., notesEncrypted: notesEncrypted || null}), the response carries
\* notes: input.notes || null
AppointmentsCreate(i, notes) ==
    /\ ~appointments[i].exists
    /\ \A j \in ApptIds : j < i => appointments[j].exists
    /\ appointments' = [appointments EXCEPT
            ![i] = [exists |-> TRUE, notes_encrypted |-> encryptOptional(notes, encryption_key),
                    status |-> "pending"]]
    /\ appt_resp' = [op |-> "create", status |-> "ok", id |-> i, input |-> notes,
                     notes |-> OrNull(notes)]
    /\ UNCHANGED encryption_key
    /\ UNCHANGED nonApptVars

\* appointments.getById: db.getAppointmentById, NOT_FOUND when there is no
\* row, else notes = decryptOptional(appointment.notesEncrypted)
AppointmentsGetById(i) ==
    /\ appt_resp' =
          IF ~appointments[i].exists
          THEN [op |-> "getById", status |-> "NOT_FOUND", id |-> i, input |-> Absent,
                notes |-> Absent]
          ELSE [op |-> "getById", status |-> "ok", id |-> i, input |-> Absent,
                notes |-> decryptOptional(appointments[i].notes_encrypted, encryption_key)]
    /\ UNCHANGED <<appointments, encryption_key>>
    /\ UNCHANGED nonApptVars

NextAppt ==
    \/ \E k \in Keys : UpdateEncryptionKey(k)
    \/ \E i \in ApptIds, notes \in OptionalTexts : AppointmentsCreate(i, notes)
    \/ \E i \in ApptIds : AppointmentsGetById(i)

SpecAppt == InitAppt /\ [][NextAppt]_vars

\* C12: a read of an appointment whose stored envelope the current key does
\* not open fails with an error; the caller never gets an absent value in
\* place of the notes.
C12_UndecryptableReadFails ==
    [][\A i \in ApptIds :
          (/\ appt_resp' # appt_resp
           /\ appt_resp'.op = "getById" /\ appt_resp'.id = i
           /\ appointments[i].exists
           /\ appointments[i].notes_encrypted.tag # "absent"
           /\ decrypt(appointments[i].notes_encrypted, encryption_key).tag = "error")
              => appt_resp'.status = "error"]_vars

\* C13: while the encryption key is absent, a create that carries notes fails
\* with an error and stores no row.
C13_WriteWithoutKeyFails ==
    [][(/\ encryption_key = NoKey
        /\ appt_resp' # appt_resp
        /\ appt_resp'.op = "create"
        /\ ~IsBlank(appt_resp'.input))
           => (appt_resp'.status = "error" /\ appointments' = appointments)]_vars

\* ------------------------------------------------------------------------
\* SpecAdmin: a superadmin with no center reads each protected table
\* ------------------------------------------------------------------------
\* ctx.user of the superadmin: isSuperadmin = true, centerId = null
Superadmins == {"root"}

\* users row of the superadmin: is_superadmin = TRUE, center_id NULL
SuperadminRow == [center |-> NULL, val |-> 0, is_superadmin |-> TRUE]

\* sess: what earlier requests left in the session of the shared connection
InitAdmin ==
    /\ sess \in [user_id : Users \cup {NULL}, center_id : Centers \cup {NULL}]
    /\ tbl = [t \in RlsEnabled |-> [id \in Ids |->
                IF id \in SeedIds THEN SeedRow(id)
                ELSE IF t = "users" THEN SuperadminRow ELSE NoRow]]
    /\ pc = [c \in Superadmins |-> "idle"]
    /\ req = [c \in Superadmins |-> NoReq]
    /\ resp = [c \in Superadmins |-> NoResp]
    /\ invoices = <<>>
    /\ invoice_items = <<>>
    /\ pharmacy_item = <<>>
    /\ pharmacy_transactions = <<>>
    /\ txreq = <<>>
    /\ txresp = <<>>
    /\ medical_acts = <<>>
    /\ encryption_key = <<>>
    /\ pgp_call = <<>>
    /\ appointments = <<>>
    /\ appt_resp = <<>>
    /\ audit_logs = <<>>
    /\ stmt = <<>>
    /\ password = <<>>
    /\ validation = <<>>
    /\ paid_invoice = <<>>
    /\ payments = <<>>
    /\ payreq = <<>>
    /\ file_stores = <<>>
    /\ fsreq = <<>>

\* The superadmin asks for the rows of table t through a protected
\* procedure; ctx.user exists, so requireUser goes on to setRLSContext.
AdminStart(c, t) ==
    /\ pc[c] = "idle"
    /\ req' = [req EXCEPT ![c] = [op |-> t, auth |-> TRUE, id |-> 0, centerId |-> NULL]]
    /\ Goto(c, "setUser")
    /\ UNCHANGED <<sess, tbl, resp>>
    /\ UNCHANGED nonIsoVars

\* setRLSContext, first statement: SET app.user_id = '<ctx.user.id>'
AdminSetUserId(c) ==
    /\ pc[c] = "setUser"
    /\ sess' = [sess EXCEPT !.user_id = c]
    /\ Goto(c, "setCenter")
    /\ UNCHANGED <<tbl, req, resp>>
    /\ UNCHANGED nonIsoVars

\* setRLSContext, else branch: SET app.center_id = NULL. NULL is a reserved
\* word and not a value SET accepts: the statement is rejected, setRLSContext
\* throws and requireUser answers INTERNAL_SERVER_ERROR.
AdminSetCenterIdRejected(c) ==
    /\ pc[c] = "setCenter"
    /\ Reply(c, "INTERNAL_SERVER_ERROR", {})
    /\ UNCHANGED <<sess, tbl, req>>
    /\ UNCHANGED nonIsoVars

\* The same statement on a server that takes it: app.center_id holds no
\* center, get_user_center_id() is NULL, and the handler starts.
AdminSetCenterIdNull(c) ==
    /\ pc[c] = "setCenter"
    /\ sess' = [sess EXCEPT !.center_id = NULL]
    /\ Goto(c, "h1")
    /\ UNCHANGED <<tbl, req, resp>>
    /\ UNCHANGED nonIsoVars

\* The handler: SELECT * FROM t, filtered by the policy of t
AdminList(c) ==
    /\ pc[c] = "h1"
    /\ Reply(c, "ok", Select(req[c].op, sess))
    /\ UNCHANGED <<sess, tbl, req>>
    /\ UNCHANGED nonIsoVars

\* The response has been sent; nothing resets the session.
AdminFinish(c) ==
    /\ pc[c] = "done"
    /\ pc' = [pc EXCEPT ![c] = "idle"]
    /\ req' = [req EXCEPT ![c] = NoReq]
    /\ resp' = [resp EXCEPT ![c] = NoResp]
    /\ UNCHANGED <<sess, tbl>>
    /\ UNCHANGED nonIsoVars

NextAdmin ==
    \E c \in Superadmins :
        \/ \E t \in RlsEnabled : AdminStart(c, t)
        \/ AdminSetUserId(c)
        \/ AdminSetCenterIdRejected(c)
        \/ AdminSetCenterIdNull(c)
        \/ AdminList(c)
        \/ AdminFinish(c)

SpecAdmin == InitAdmin /\ [][NextAdmin]_vars

\* C14: a read by the superadmin who has no center returns every row of the
\* table, whatever the center of the row, for each of the seven entity kinds.
C14_SuperadminSeesEveryCenter ==
    \A c \in Superadmins :
        pc[c] = "done" =>
            /\ resp[c].status = "ok"
            /\ resp[c].rows = Present(req[c].op)

\* ------------------------------------------------------------------------
\* SpecLedger: pharmacyItems.delete next to the two createTransaction routes
\* ------------------------------------------------------------------------
InitLedger == InitStock

\* a pharmacyItems.delete request for the item arrives
StartDelete(c) ==
    /\ txreq[c].pc = "idle"
    /\ pharmacy_item.exists
    /\ txreq' = [txreq EXCEPT ![c] = [NoTx EXCEPT !.pc = "check", !.route = "pharmacyItems.delete"]]
    /\ UNCHANGED <<pharmacy_item, pharmacy_transactions, txresp>>
    /\ UNCHANGED nonStockVars

\* pharmacyItems.delete, first statement: SELECT ... FROM pharmacy_transactions
\* WHERE item_id = $1 LIMIT 1; CONFLICT when a row comes back
DeleteCheck(c) ==
    /\ txreq[c].pc = "check"
    /\ IF Len(pharmacy_transactions) > 0
       THEN TxReply(c, "CONFLICT")
       ELSE /\ txreq' = [txreq EXCEPT ![c].pc = "delete"]
            /\ UNCHANGED txresp
    /\ UNCHANGED <<pharmacy_item, pharmacy_transactions>>
    /\ UNCHANGED nonStockVars

\* pharmacyItems.delete, second statement: DELETE FROM pharmacy_items WHERE
\* id = $1; pharmacy_transactions.item_id is ON DELETE CASCADE
DeleteItemRow(c) ==
    /\ txreq[c].pc = "delete"
    /\ pharmacy_item' = [exists |-> FALSE, current_stock |-> 0]
    /\ pharmacy_transactions' = <<>>
    /\ TxReply(c, "ok")
    /\ UNCHANGED nonStockVars

NextLedger ==
    \/ \E n \in InitialStocks : CreateItem(n)
    \/ \E c \in Clients :
          \/ \E r \in TxRoutes, ty \in TransactionTypes, q \in TxQuantities : StartTx(c, r, ty, q)
          \/ CheckStock(c)
          \/ InsertTx(c)
          \/ StartDelete(c)
          \/ DeleteCheck(c)
          \/ DeleteItemRow(c)
          \/ FinishTx(c)

SpecLedger == InitLedger /\ [][NextLedger]_vars

\* C17: a ledger entry, once written, stays as it was written: every step
\* keeps the existing entries, in place and unchanged (stated for the requests
\* of the pharmacyItems router alone).
C17_LedgerIsAppendOnly ==
    [][(\A d \in Clients : txreq[d].route # "pharmacy.createTransaction")
          => /\ Len(pharmacy_transactions') >= Len(pharmacy_transactions)
             /\ \A i \in 1..Len(pharmacy_transactions) :
                    pharmacy_transactions'[i] = pharmacy_transactions[i]]_vars

\* ------------------------------------------------------------------------
\* SpecAudit: row mutations and the audit triggers
\* ------------------------------------------------------------------------
\* CREATE TRIGGER audit_users / audit_patients / audit_invoices ... EXECUTE
\* FUNCTION log_audit_change(): the tables that have an audit trigger
AuditTriggers == {"users", "patients", "invoices"}

\* the entity kinds the statements below mutate
EntityKinds == {"users", "patients", "appointments"}

\* MaxRecords bounds the rows per table, MaxAudit the rows of audit_logs
MaxRecords == 2
MaxAudit == 2
RecordIds == 1..MaxRecords

\* app.user_id not set / audit_logs.user_id NULL
NoUser == 0

Operations == {"INSERT", "UPDATE", "DELETE"}

NoStmt == [table_name |-> "none", operation |-> "none", record_id |-> 0, status |-> "none",
           audit |-> "none"]

InitAudit ==
    /\ tbl = [t \in EntityKinds |-> [id \in RecordIds |-> SeedRow(id)]]
    /\ sess = [user_id |-> NoUser, center_id |-> NULL]
    /\ audit_logs = <<>>
    /\ stmt = NoStmt
    /\ password = <<>>
    /\ validation = <<>>
    /\ paid_invoice = <<>>
    /\ payments = <<>>
    /\ payreq = <<>>
    /\ file_stores = <<>>
    /\ fsreq = <<>>
    /\ pc = <<>>
    /\ req = <<>>
    /\ resp = <<>>
    /\ invoices = <<>>
    /\ invoice_items = <<>>
    /\ pharmacy_item = <<>>
    /\ pharmacy_transactions = <<>>
    /\ txreq = <<>>
    /\ txresp = <<>>
    /\ medical_acts = <<>>
    /\ encryption_key = <<>>
    /\ pgp_call = <<>>
    /\ appointments = <<>>
    /\ appt_resp = <<>>

\* setRLSContext: SET app.user_id = '<id>' for an existing user
AuditSetUserId(u) ==
    /\ tbl["users"][u] # NoRow
    /\ sess' = [sess EXCEPT !.user_id = u]
    /\ UNCHANGED <<tbl, audit_logs, stmt>>
    /\ UNCHANGED nonAuditVars

\* the table after the statement: INSERT a new row, UPDATE a column of the
\* row, DELETE the row
Mutated(t, op, id) ==
    [tbl EXCEPT ![t][id] =
        IF op = "INSERT" THEN SeedRow(id)
        ELSE IF op = "UPDATE" THEN [tbl[t][id] EXCEPT !.val = 1]
        ELSE NoRow]

\* log_audit_change: (TG_TABLE_NAME, TG_OP, usr_id, COALESCE(NEW.id, OLD.id),
\* to_jsonb(OLD), to_jsonb(NEW))
AuditEntry(t, op, id, new) ==
    [table_name |-> t, operation |-> op, user_id |-> get_current_user_id(sess),
     record_id |-> id, old_data |-> tbl[t][id], new_data |-> new[t][id]]

\* audit_logs.user_id REFERENCES users(id): the INSERT of the trigger is
\* rejected when user_id names no row of users as the statement leaves it
AuditInsertFails(e, new) == e.user_id # NoUser /\ new["users"][e.user_id] = NoRow

\* audit_logs.user_id ... ON DELETE SET NULL
SetNullOnDelete(log, t, op, id) ==
    [i \in 1..Len(log) |->
        IF t = "users" /\ op = "DELETE" /\ log[i].user_id = id
        THEN [log[i] EXCEPT !.user_id = NoUser] ELSE log[i]]

\* One INSERT / UPDATE / DELETE statement on row id of table t, with the
\* AFTER ... FOR EACH ROW trigger of the table when it has one. An error
\* raised in the trigger aborts the statement.
Statement(t, op, id) ==
    /\ (op = "INSERT") = (tbl[t][id] = NoRow)
    /\ op = "UPDATE" => tbl[t][id].val = 0
    /\ t \in AuditTriggers => Len(audit_logs) < MaxAudit
    /\ IF t \notin AuditTriggers
       THEN /\ tbl' = Mutated(t, op, id)
            /\ UNCHANGED audit_logs
            /\ stmt' = [table_name |-> t, operation |-> op, record_id |-> id,
                        status |-> "ok", audit |-> "none"]
       ELSE IF AuditInsertFails(AuditEntry(t, op, id, Mutated(t, op, id)), Mutated(t, op, id))
       THEN /\ UNCHANGED <<tbl, audit_logs>>
            /\ stmt' = [table_name |-> t, operation |-> op, record_id |-> id,
                        status |-> "error", audit |-> "failed"]
       ELSE /\ tbl' = Mutated(t, op, id)
            /\ audit_logs' = Append(SetNullOnDelete(audit_logs, t, op, id),
                                    AuditEntry(t, op, id, Mutated(t, op, id)))
            /\ stmt' = [table_name |-> t, operation |-> op, record_id |-> id,
                        status |-> "ok", audit |-> "written"]
    /\ UNCHANGED sess
    /\ UNCHANGED nonAuditVars

NextAudit ==
    \/ \E u \in RecordIds : AuditSetUserId(u)
    \/ \E t \in EntityKinds, op \in Operations, id \in RecordIds : Statement(t, op, id)

SpecAudit == InitAudit /\ [][NextAudit]_vars

\* C15: every step that creates, updates or deletes a row, of any entity kind,
\* appends exactly one audit entry, and that entry names the table, the
\* operation, the acting user and the row before and after.
C15_EveryMutationIsAudited ==
    [][\A t \in EntityKinds, id \in RecordIds :
          tbl'[t][id] # tbl[t][id]
             => /\ Len(audit_logs') = Len(audit_logs) + 1
                /\ audit_logs'[Len(audit_logs')]
                     = [table_name |-> t, operation |-> stmt'.operation,
                        user_id |-> sess.user_id, record_id |-> id,
                        old_data |-> tbl[t][id], new_data |-> tbl'[t][id]]]_vars

\* C16: a statement whose audit entry could not be written still commits.
C16_AuditFailureDoesNotBlock ==
    stmt.audit = "failed" => stmt.status = "ok"

\* ------------------------------------------------------------------------
\* Round trip, absent values and batches (SpecPgp)
\* ------------------------------------------------------------------------
\* C18: for every string s, the empty string included, decrypt(encrypt(s))
\* returns s (the key being present).
C18_RoundTripReturnsInput ==
    (/\ pgp_call.fn = "roundTrip"
     /\ pgp_call.args[1].tag = "text"
     /\ encryption_key # NoKey)
        => pgp_call.out[1] = pgp_call.args[1]

\* C19: encryptOptional of an absent value and decryptOptional of an absent
\* value both return absent: no envelope, no text, no error.
C19_AbsentStaysAbsent ==
    (/\ pgp_call.fn \in {"encryptOptional", "decryptOptional"}
     /\ pgp_call.args[1] = Absent)
        => pgp_call.out[1] = Absent

\* encryptOptional was called with an absent value and returned
C19_Witness ==
    /\ pgp_call.fn = "encryptOptional"
    /\ pgp_call.args = <<Absent>>
    /\ pgp_call.out = <<Absent>>

\* C20: in a batch the caller can tell, field by field, which field failed: a
\* field comes back absent only when nothing was to be encrypted or decrypted
\* for it (the key being present).
C20_BatchFailuresAreVisible ==
    (pgp_call.fn \in {"encryptBatch", "decryptBatch"} /\ encryption_key # NoKey)
        => \A i \in 1..Len(pgp_call.args) :
              pgp_call.out[i].tag = "absent"
                 => \/ pgp_call.args[i].tag = "absent"
                    \/ pgp_call.fn = "encryptBatch" /\ IsBlank(pgp_call.args[i])

\* ------------------------------------------------------------------------
\* SpecAuth: requireUser and requireAdmin in front of a handler
\* ------------------------------------------------------------------------
\* the clients of SpecAuth: a user of center A and a superadmin without center
AuthClients == {"u1", "root"}

\* protectedProcedure = t.procedure.use(requireUser),
\* adminProcedure = t.procedure.use(requireAdmin)
Procedures == {"protectedProcedure", "adminProcedure"}

\* ctx.user.centerId || null
CtxCenterId(c) == IF c \in Superadmins THEN NULL ELSE UserCenterId[c]

\* a middleware that treats every request as carrying a user
AcceptsAnyone(rq) == TRUE

\* if (!ctx.user) throw UNAUTHORIZED: does the request carry a user
HasUser(rq) == rq.auth

InitAuth ==
    /\ sess = [user_id |-> NULL, center_id |-> NULL]
    /\ pc = [c \in AuthClients |-> "idle"]
    /\ req = [c \in AuthClients |-> NoReq]
    /\ resp = [c \in AuthClients |-> NoResp]
    /\ tbl = <<>>
    /\ invoices = <<>>
    /\ invoice_items = <<>>
    /\ pharmacy_item = <<>>
    /\ pharmacy_transactions = <<>>
    /\ txreq = <<>>
    /\ txresp = <<>>
    /\ medical_acts = <<>>
    /\ encryption_key = <<>>
    /\ pgp_call = <<>>
    /\ appointments = <<>>
    /\ appt_resp = <<>>
    /\ audit_logs = <<>>
    /\ stmt = <<>>
    /\ password = <<>>
    /\ validation = <<>>
    /\ paid_invoice = <<>>
    /\ payments = <<>>
    /\ payreq = <<>>
    /\ file_stores = <<>>
    /\ fsreq = <<>>

\* a call of a protected or admin procedure arrives, with or without ctx.user
AuthStart(c, p, a) ==
    /\ pc[c] = "idle"
    /\ req' = [req EXCEPT ![c] = [op |-> p, auth |-> a, id |-> 0, centerId |-> NULL]]
    /\ Goto(c, "middleware")
    /\ UNCHANGED <<sess, tbl, resp>>
    /\ UNCHANGED nonIsoVars

\* requireUser, step 1: no ctx.user -> UNAUTHORIZED
RequireUser(c) ==
    /\ pc[c] = "middleware" /\ req[c].op = "protectedProcedure"
    /\ IF ~HasUser(req[c])
       THEN Reply(c, "UNAUTHORIZED", {})
       ELSE Goto(c, "setUser") /\ UNCHANGED resp
    /\ UNCHANGED <<sess, tbl, req>>
    /\ UNCHANGED nonIsoVars

\* requireAdmin, steps 1 and 2: no ctx.user -> UNAUTHORIZED, not a
\* superadmin -> FORBIDDEN
RequireAdmin(c) ==
    /\ pc[c] = "middleware" /\ req[c].op = "adminProcedure"
    /\ IF ~HasUser(req[c])
       THEN Reply(c, "UNAUTHORIZED", {})
       ELSE IF c \notin Superadmins
       THEN Reply(c, "FORBIDDEN", {})
       ELSE Goto(c, "setUser") /\ UNCHANGED resp
    /\ UNCHANGED <<sess, tbl, req>>
    /\ UNCHANGED nonIsoVars

\* setRLSContext, first statement: SET app.user_id = '<ctx.user.id>'
AuthSetUserId(c) ==
    /\ pc[c] = "setUser"
    /\ sess' = [sess EXCEPT !.user_id = c]
    /\ Goto(c, "setCenter")
    /\ UNCHANGED <<tbl, req, resp>>
    /\ UNCHANGED nonIsoVars

\* setRLSContext, second statement, for a user who has a center
AuthSetCenterId(c) ==
    /\ pc[c] = "setCenter" /\ CtxCenterId(c) # NULL
    /\ sess' = [sess EXCEPT !.center_id = CtxCenterId(c)]
    /\ Goto(c, "h1")
    /\ UNCHANGED <<tbl, req, resp>>
    /\ UNCHANGED nonIsoVars

\* setRLSContext, second statement, for a user without center: SET
\* app.center_id = NULL is rejected and the middleware answers
\* INTERNAL_SERVER_ERROR, or a server that takes it clears the center
AuthSetCenterIdOfNone(c, accepted) ==
    /\ pc[c] = "setCenter" /\ CtxCenterId(c) = NULL
    /\ IF accepted
       THEN /\ sess' = [sess EXCEPT !.center_id = NULL]
            /\ Goto(c, "h1")
            /\ UNCHANGED resp
       ELSE /\ Reply(c, "INTERNAL_SERVER_ERROR", {})
            /\ UNCHANGED sess
    /\ UNCHANGED <<tbl, req>>
    /\ UNCHANGED nonIsoVars

\* next(): the handler runs and answers
AuthHandler(c) ==
    /\ pc[c] = "h1"
    /\ Reply(c, "ok", {})
    /\ UNCHANGED <<sess, tbl, req>>
    /\ UNCHANGED nonIsoVars

\* The response has been sent; nothing resets the session.
AuthFinish(c) ==
    /\ pc[c] = "done"
    /\ pc' = [pc EXCEPT ![c] = "idle"]
    /\ req' = [req EXCEPT ![c] = NoReq]
    /\ resp' = [resp EXCEPT ![c] = NoResp]
    /\ UNCHANGED <<sess, tbl>>
    /\ UNCHANGED nonIsoVars

NextAuth ==
    \E c \in AuthClients :
        \/ \E p \in Procedures, a \in BOOLEAN : AuthStart(c, p, a)
        \/ RequireUser(c)
        \/ RequireAdmin(c)
        \/ AuthSetUserId(c)
        \/ AuthSetCenterId(c)
        \/ \E accepted \in BOOLEAN : AuthSetCenterIdOfNone(c, accepted)
        \/ AuthHandler(c)
        \/ AuthFinish(c)

SpecAuth == InitAuth /\ [][NextAuth]_vars

\* C21: a protected or admin procedure called with no authenticated user is
\* answered UNAUTHORIZED, and its request never reaches setRLSContext or the
\* handler: the steps of such a request leave the session as it was.
C21_NoUserIsUnauthorizedFirst ==
    [][\A c \in AuthClients :
          (req[c].op \in Procedures /\ ~req[c].auth /\ pc'[c] # pc[c])
             => /\ pc[c] \in {"middleware", "done"}
                /\ pc[c] = "middleware"
                     => (pc'[c] = "done" /\ resp'[c].status = "UNAUTHORIZED" /\ sess' = sess)]_vars

\* a request without user has been answered UNAUTHORIZED
C21_Witness ==
    \E c \in AuthClients :
        /\ req[c].op \in Procedures /\ ~req[c].auth
        /\ pc[c] = "done" /\ resp[c].status = "UNAUTHORIZED"

\* ------------------------------------------------------------------------
\* SpecEnc: medical acts and prescriptions, scoped through their encounter
\* ------------------------------------------------------------------------
\* the tables whose policy resolves the center through encounters
EncounterChildren == {"medical_acts", "prescriptions"}

\* encounter 1 belongs to center A, encounter 2 to center B
EncounterIds == SeedIds

\* a medical_acts / prescriptions row: encounter_id is kept in val, the table
\* has no center_id column
ChildRow(e) == [center |-> NULL, val |-> e, is_superadmin |-> FALSE]

EncOps == {"medicalActs.list", "medicalActs.create", "prescriptions.list", "prescriptions.create"}

TableOf(op) == IF op \in {"medicalActs.list", "medicalActs.create"}
               THEN "medical_acts" ELSE "prescriptions"

\* (SELECT center_id FROM encounters WHERE id = encounter_id) = get_user_center_id()
EncounterPolicy(row, s) == SqlEq(tbl["encounters"][row.val].center, get_user_center_id(s))

InitEnc ==
    /\ sess = [user_id |-> NULL, center_id |-> NULL]
    /\ tbl = [t \in EncounterChildren \cup {"encounters"} |-> [id \in Ids |->
                IF id \notin SeedIds THEN NoRow
                ELSE IF t = "encounters" THEN SeedRow(id) ELSE ChildRow(id)]]
    /\ pc = [c \in Clients |-> "idle"]
    /\ req = [c \in Clients |-> NoReq]
    /\ resp = [c \in Clients |-> NoResp]
    /\ invoices = <<>>
    /\ invoice_items = <<>>
    /\ pharmacy_item = <<>>
    /\ pharmacy_transactions = <<>>
    /\ txreq = <<>>
    /\ txresp = <<>>
    /\ medical_acts = <<>>
    /\ encryption_key = <<>>
    /\ pgp_call = <<>>
    /\ appointments = <<>>
    /\ appt_resp = <<>>
    /\ audit_logs = <<>>
    /\ stmt = <<>>
    /\ password = <<>>
    /\ validation = <<>>
    /\ paid_invoice = <<>>
    /\ payments = <<>>
    /\ payreq = <<>>
    /\ file_stores = <<>>
    /\ fsreq = <<>>

\* an authenticated call of one of the four procedures arrives; requireUser
\* goes on to setRLSContext (SetUserId, SetCenterId)
EncStart(c, op, e) ==
    /\ pc[c] = "idle"
    /\ (op \in {"medicalActs.create", "prescriptions.create"}) = (e # 0)
    /\ req' = [req EXCEPT ![c] = [op |-> op, auth |-> TRUE, id |-> e, centerId |-> NULL]]
    /\ Goto(c, "setUser")
    /\ UNCHANGED <<sess, tbl, resp>>
    /\ UNCHANGED nonIsoVars

\* medicalActs.list / prescriptions.list: SELECT * FROM t, filtered by the
\* policy; the answer is the ids of the rows
EncList(c) ==
    /\ pc[c] = "h1" /\ req[c].op \in {"medicalActs.list", "prescriptions.list"}
    /\ Reply(c, "ok", {id \in Present(TableOf(req[c].op)) :
                          EncounterPolicy(tbl[TableOf(req[c].op)][id], sess)})
    /\ UNCHANGED <<sess, tbl, req>>
    /\ UNCHANGED nonIsoVars

\* medicalActs.create / prescriptions.create: INSERT INTO t (encounter_id, ..)
\* VALUES (input.encounterId, ..); the policy's WITH CHECK rejects the row
\* when the encounter's center is not the session's
EncCreate(c) ==
    /\ pc[c] = "h1" /\ req[c].op \in {"medicalActs.create", "prescriptions.create"}
    /\ IF ~EncounterPolicy(ChildRow(req[c].id), sess)
       THEN /\ Reply(c, "INTERNAL_SERVER_ERROR", {})
            /\ UNCHANGED tbl
       ELSE /\ FreeIds(TableOf(req[c].op)) # {}
            /\ \E i \in FreeIds(TableOf(req[c].op)) :
                  /\ \A j \in FreeIds(TableOf(req[c].op)) : i <= j
                  /\ tbl' = [tbl EXCEPT ![TableOf(req[c].op)][i] = ChildRow(req[c].id)]
                  /\ Reply(c, "ok", {i})
    /\ UNCHANGED <<sess, req>>
    /\ UNCHANGED nonIsoVars

NextEnc ==
    \E c \in Clients :
        \/ \E op \in EncOps, e \in EncounterIds \cup {0} : EncStart(c, op, e)
        \/ SetUserId(c)
        \/ SetCenterId(c)
        \/ EncList(c)
        \/ EncCreate(c)
        \/ Finish(c)

SpecEnc == InitEnc /\ [][NextEnc]_vars

\* C22: a user of center A gets from medicalActs.list / prescriptions.list
\* only rows whose encounter belongs to A, and medicalActs.create /
\* prescriptions.create store a row for that user only under an encounter of A.
C22_EncounterScopedRecords ==
    [][\A c \in Clients :
          (pc[c] = "h1" /\ pc'[c] = "done" /\ resp'[c].status = "ok")
             => \A i \in resp'[c].rows :
                   tbl'["encounters"][tbl'[TableOf(req[c].op)][i].val].center = UserCenterId[c]]_vars

\* ------------------------------------------------------------------------
\* SpecSuper: a superadmin who has a center calls the users admin procedures
\* ------------------------------------------------------------------------
\* the superadmin: ctx.user.isSuperadmin = true, ctx.user.centerId = A
CenterSuperadmins == {"sa"}
SuperadminCenterId == "A"

\* users rows: 1 an ordinary user of B, 2 a superadmin of B; further ids are free
OtherCenterUser(id) == [center |-> "B", val |-> 0, is_superadmin |-> id = 2]

SuperOps == {"users.update", "users.create"}

\* the centerId of the input: absent (NULL), A or B
InputCenters == Centers \cup {NULL}

InitSuper ==
    /\ sess = [user_id |-> NULL, center_id |-> NULL]
    /\ tbl = [t \in {"users"} |-> [id \in Ids |->
                IF id \in SeedIds THEN OtherCenterUser(id) ELSE NoRow]]
    /\ pc = [c \in CenterSuperadmins |-> "idle"]
    /\ req = [c \in CenterSuperadmins |-> NoReq]
    /\ resp = [c \in CenterSuperadmins |-> NoResp]
    /\ invoices = <<>>
    /\ invoice_items = <<>>
    /\ pharmacy_item = <<>>
    /\ pharmacy_transactions = <<>>
    /\ txreq = <<>>
    /\ txresp = <<>>
    /\ medical_acts = <<>>
    /\ encryption_key = <<>>
    /\ pgp_call = <<>>
    /\ appointments = <<>>
    /\ appt_resp = <<>>
    /\ audit_logs = <<>>
    /\ stmt = <<>>
    /\ password = <<>>
    /\ validation = <<>>
    /\ paid_invoice = <<>>
    /\ payments = <<>>
    /\ payreq = <<>>
    /\ file_stores = <<>>
    /\ fsreq = <<>>

\* users.update({id, data}) or users.create(input) arrives; requireAdmin finds
\* a superadmin and goes on to setRLSContext
SuperStart(c, op, id, ce) ==
    /\ pc[c] = "idle"
    /\ (op = "users.update") = (id # 0)
    /\ req' = [req EXCEPT ![c] = [op |-> op, auth |-> TRUE, id |-> id, centerId |-> ce]]
    /\ Goto(c, "setUser")
    /\ UNCHANGED <<sess, tbl, resp>>
    /\ UNCHANGED nonIsoVars

\* setRLSContext, first statement: SET app.user_id = '<ctx.user.id>'
SuperSetUserId(c) ==
    /\ pc[c] = "setUser"
    /\ sess' = [sess EXCEPT !.user_id = c]
    /\ Goto(c, "setCenter")
    /\ UNCHANGED <<tbl, req, resp>>
    /\ UNCHANGED nonIsoVars

\* setRLSContext, second statement: SET app.center_id = '<ctx.user.centerId>'
SuperSetCenterId(c) ==
    /\ pc[c] = "setCenter"
    /\ sess' = [sess EXCEPT !.center_id = SuperadminCenterId]
    /\ Goto(c, "h1")
    /\ UNCHANGED <<tbl, req, resp>>
    /\ UNCHANGED nonIsoVars

\* users.update, first statement: db.getUserById; NOT_FOUND when the policy
\* shows no such row
UsersUpdateGet(c) ==
    /\ pc[c] = "h1" /\ req[c].op = "users.update"
    /\ IF ById("users", req[c].id, sess) = {}
       THEN Reply(c, "NOT_FOUND", {})
       ELSE Goto(c, "h2") /\ UNCHANGED resp
    /\ UNCHANGED <<sess, tbl, req>>
    /\ UNCHANGED nonIsoVars

\* the row as UPDATE users SET {...input.data} leaves it: center_id is set
\* when the input carries one
UpdatedUser(row, ce) == [row EXCEPT !.val = 1, !.center = IF ce = NULL THEN row.center ELSE ce]

\* users.update, second statement: db.updateUser; the new row must pass
\* WITH CHECK, else the statement fails
UsersUpdateSet(c) ==
    /\ pc[c] = "h2" /\ req[c].op = "users.update"
    /\ IF ById("users", req[c].id, sess) = {}
       THEN /\ Reply(c, "INTERNAL_SERVER_ERROR", {})
            /\ UNCHANGED tbl
       ELSE IF ~PolicyCheck("users", UpdatedUser(tbl["users"][req[c].id], req[c].centerId), sess)
       THEN /\ Reply(c, "INTERNAL_SERVER_ERROR", {})
            /\ UNCHANGED tbl
       ELSE /\ tbl' = [tbl EXCEPT !["users"][req[c].id] =
                            UpdatedUser(tbl["users"][req[c].id], req[c].centerId)]
            /\ Reply(c, "ok", {req[c].id})
    /\ UNCHANGED <<sess, req>>
    /\ UNCHANGED nonIsoVars

\* users.create: db.createUser({.., centerId: input.centerId || null}); the
\* new row must pass WITH CHECK
UsersCreate(c) ==
    /\ pc[c] = "h1" /\ req[c].op = "users.create"
    /\ IF ~PolicyCheck("users", NewUser(c), sess)
       THEN /\ Reply(c, "INTERNAL_SERVER_ERROR", {})
            /\ UNCHANGED tbl
       ELSE /\ FreeIds("users") # {}
            /\ \E i \in FreeIds("users") :
                  /\ \A j \in FreeIds("users") : i <= j
                  /\ tbl' = [tbl EXCEPT !["users"][i] = NewUser(c)]
                  /\ Reply(c, "ok", {i})
    /\ UNCHANGED <<sess, req>>
    /\ UNCHANGED nonIsoVars

\* The response has been sent; nothing resets the session.
SuperFinish(c) ==
    /\ pc[c] = "done"
    /\ pc' = [pc EXCEPT ![c] = "idle"]
    /\ req' = [req EXCEPT ![c] = NoReq]
    /\ resp' = [resp EXCEPT ![c] = NoResp]
    /\ UNCHANGED <<sess, tbl>>
    /\ UNCHANGED nonIsoVars

NextSuper ==
    \E c \in CenterSuperadmins :
        \/ \E op \in SuperOps, id \in SeedIds \cup {0}, ce \in InputCenters : SuperStart(c, op, id, ce)
        \/ SuperSetUserId(c)
        \/ SuperSetCenterId(c)
        \/ UsersUpdateGet(c)
        \/ UsersUpdateSet(c)
        \/ UsersCreate(c)
        \/ SuperFinish(c)

SpecSuper == InitSuper /\ [][NextSuper]_vars

\* C23: every row a superadmin of center A creates or modifies belongs to A,
\* before and after the write; a write that targets a row of another center
\* changes nothing.
C23_SuperadminWritesOwnCenterOnly ==
    [][\A c \in CenterSuperadmins : \A i \in Ids :
          tbl'["users"][i] # tbl["users"][i]
             => /\ tbl'["users"][i].center = SuperadminCenterId
                /\ tbl["users"][i] = NoRow \/ tbl["users"][i].center = SuperadminCenterId]_vars

\* ------------------------------------------------------------------------
\* SpecPwd: AuthService.validatePasswordStrength
\* ------------------------------------------------------------------------
\* one character of each class the five tests tell apart: uppercase,
\* lowercase, digit, special, and one that is none of them
PasswordChars == {"A", "a", "1", "!", "_"}

\* passwords are PadLen characters of no class (or none) followed by at most
\* MaxTail characters: lengths 0..MaxTail and PadLen..PadLen + MaxTail
MaxTail == 4
PadLen == 4
Padding == [i \in 1..PadLen |-> "_"]
Passwords == UNION {{t, Padding \o t} : t \in UNION {[1..n -> PasswordChars] : n \in 0..MaxTail}}

\* password.length < 8
MinLength == 8

\* /[A-Z]/.test(password) and the three other tests
Contains(p, ch) == \E i \in 1..Len(p) : p[i] = ch

TooShort == "Password must be at least 8 characters long"
NoUppercase == "Password must contain at least one uppercase letter"
NoLowercase == "Password must contain at least one lowercase letter"
NoDigit == "Password must contain at least one digit"
NoSpecial == "Password must contain at least one special character"

\* errors.push(msg) when the rule is violated
Push(errors, violated, msg) == IF violated THEN Append(errors, msg) ELSE errors

\* a validation that stops at the first violated rule
FirstErrorOnly(p) ==
    IF Len(p) < MinLength THEN <<TooShort>>
    ELSE IF ~Contains(p, "A") THEN <<NoUppercase>>
    ELSE IF ~Contains(p, "a") THEN <<NoLowercase>>
    ELSE IF ~Contains(p, "1") THEN <<NoDigit>>
    ELSE IF ~Contains(p, "!") THEN <<NoSpecial>>
    ELSE <<>>

\* the errors array, the five tests in the order of the code
Errors(p) ==
    Push(Push(Push(Push(Push(<<>>,
        Len(p) < MinLength, TooShort),
        ~Contains(p, "A"), NoUppercase),
        ~Contains(p, "a"), NoLowercase),
        ~Contains(p, "1"), NoDigit),
        ~Contains(p, "!"), NoSpecial)

validatePasswordStrength(p) == [isValid |-> Len(Errors(p)) = 0, errors |-> Errors(p)]

NoValidation == [isValid |-> FALSE, errors |-> <<"not called">>]

InitPwd ==
    /\ password \in Passwords
    /\ validation = NoValidation
    /\ sess = [user_id |-> NULL, center_id |-> NULL]
    /\ tbl = <<>>
    /\ pc = <<>>
    /\ req = <<>>
    /\ resp = <<>>
    /\ invoices = <<>>
    /\ invoice_items = <<>>
    /\ pharmacy_item = <<>>
    /\ pharmacy_transactions = <<>>
    /\ txreq = <<>>
    /\ txresp = <<>>
    /\ medical_acts = <<>>
    /\ encryption_key = <<>>
    /\ pgp_call = <<>>
    /\ appointments = <<>>
    /\ appt_resp = <<>>
    /\ audit_logs = <<>>
    /\ stmt = <<>>
    /\ paid_invoice = <<>>
    /\ payments = <<>>
    /\ payreq = <<>>
    /\ file_stores = <<>>
    /\ fsreq = <<>>

\* validatePasswordStrength(password) is called
Validate ==
    /\ validation' = validatePasswordStrength(password)
    /\ UNCHANGED password
    /\ UNCHANGED nonPwdVars

NextPwd == Validate

SpecPwd == InitPwd /\ [][NextPwd]_vars

Reasons(errors) == {errors[i] : i \in 1..Len(errors)}

\* C24: validatePasswordStrength reports every violated rule, each once and
\* no other, and isValid is true exactly when no reason is reported; the same
\* password always gets the same answer.
C24_EveryViolatedRuleIsReported ==
    validation # NoValidation =>
        /\ (TooShort \in Reasons(validation.errors)) = (Len(password) < MinLength)
        /\ (NoUppercase \in Reasons(validation.errors)) = ~Contains(password, "A")
        /\ (NoLowercase \in Reasons(validation.errors)) = ~Contains(password, "a")
        /\ (NoDigit \in Reasons(validation.errors)) = ~Contains(password, "1")
        /\ (NoSpecial \in Reasons(validation.errors)) = ~Contains(password, "!")
        /\ Cardinality(Reasons(validation.errors)) = Len(validation.errors)
        /\ Reasons(validation.errors) \subseteq {TooShort, NoUppercase, NoLowercase, NoDigit, NoSpecial}
        /\ validation.isValid = (validation.errors = <<>>)

\* a password that violates several rules at once has been validated
C24_Witness ==
    /\ validation # NoValidation
    /\ Len(validation.errors) >= 2

\* ------------------------------------------------------------------------
\* SpecPay: invoices.addPayment, concurrent requests on one invoice
\* ------------------------------------------------------------------------
\* MaxPayments bounds the rows of payments
MaxPayments == 3

\* amounts in cents: invoices.total_amount and the input amounts
InvoiceTotal == 100
PayAmounts == {40, 60, 100}

NoPay == [pc |-> "idle", amount |-> 0, totalAmount |-> 0, paidAmount |-> 0,
          status |-> "none", result |-> "none"]

InitPay ==
    /\ paid_invoice = [total_amount |-> InvoiceTotal, paid_amount |-> 0, status |-> "pending"]
    /\ payments = <<>>
    /\ payreq = [c \in Clients |-> NoPay]
    /\ sess = [user_id |-> NULL, center_id |-> NULL]
    /\ tbl = <<>>
    /\ pc = <<>>
    /\ req = <<>>
    /\ resp = <<>>
    /\ invoices = <<>>
    /\ invoice_items = <<>>
    /\ pharmacy_item = <<>>
    /\ pharmacy_transactions = <<>>
    /\ txreq = <<>>
    /\ txresp = <<>>
    /\ medical_acts = <<>>
    /\ encryption_key = <<>>
    /\ pgp_call = <<>>
    /\ appointments = <<>>
    /\ appt_resp = <<>>
    /\ audit_logs = <<>>
    /\ stmt = <<>>
    /\ password = <<>>
    /\ validation = <<>>
    /\ file_stores = <<>>
    /\ fsreq = <<>>

\* addPayment({invoiceId, amount}) arrives
PayStart(c, a) ==
    /\ payreq[c].pc = "idle"
    /\ Len(payments) < MaxPayments
    /\ payreq' = [payreq EXCEPT ![c] = [NoPay EXCEPT !.pc = "get", !.amount = a]]
    /\ UNCHANGED <<paid_invoice, payments>>
    /\ UNCHANGED nonPayVars

\* db.getInvoiceById, then remaining = totalAmount - paidAmount and
\* BAD_REQUEST when input.amount > remaining
PayGetInvoice(c) ==
    /\ payreq[c].pc = "get"
    /\ IF payreq[c].amount > paid_invoice.total_amount - paid_invoice.paid_amount
       THEN payreq' = [payreq EXCEPT ![c].pc = "done", ![c].result = "BAD_REQUEST"]
       ELSE payreq' = [payreq EXCEPT ![c].pc = "insert",
                                     ![c].totalAmount = paid_invoice.total_amount,
                                     ![c].paidAmount = paid_invoice.paid_amount,
                                     ![c].status = paid_invoice.status]
    /\ UNCHANGED <<paid_invoice, payments>>
    /\ UNCHANGED nonPayVars

\* insert(payments).values({invoiceId, patientId, amount})
PayInsert(c) ==
    /\ payreq[c].pc = "insert"
    /\ payments' = Append(payments, payreq[c].amount)
    /\ payreq' = [payreq EXCEPT ![c].pc = "update"]
    /\ UNCHANGED paid_invoice
    /\ UNCHANGED nonPayVars

\* newPaidAmount = paidAmount + input.amount; newStatus = newPaidAmount >=
\* totalAmount ? "paid" : invoice.status; db.updateInvoice(id, {paidAmount,
\* status}), from the values read by getInvoiceById
PayUpdateInvoice(c) ==
    /\ payreq[c].pc = "update"
    /\ paid_invoice' = [paid_invoice EXCEPT
            !.paid_amount = payreq[c].paidAmount + payreq[c].amount,
            !.status = IF payreq[c].paidAmount + payreq[c].amount >= payreq[c].totalAmount
                       THEN "paid" ELSE payreq[c].status]
    /\ payreq' = [payreq EXCEPT ![c].pc = "done", ![c].result = "ok"]
    /\ UNCHANGED payments
    /\ UNCHANGED nonPayVars

\* the response has been sent
PayFinish(c) ==
    /\ payreq[c].pc = "done"
    /\ payreq' = [payreq EXCEPT ![c] = NoPay]
    /\ UNCHANGED <<paid_invoice, payments>>
    /\ UNCHANGED nonPayVars

NextPay ==
    \E c \in Clients :
        \/ \E a \in PayAmounts : PayStart(c, a)
        \/ PayGetInvoice(c)
        \/ PayInsert(c)
        \/ PayUpdateInvoice(c)
        \/ PayFinish(c)

SpecPay == InitPay /\ [][NextPay]_vars

RECURSIVE SumAmounts(_)
SumAmounts(seq) == IF seq = <<>> THEN 0 ELSE seq[1] + SumAmounts(Tail(seq))

\* C25: once every addPayment request has completed, the invoice's
\* paid_amount is the sum of the payments recorded for it.
C25_PaidAmountIsSumOfPayments ==
    (\A c \in Clients : payreq[c].pc \in {"idle", "done"})
        => paid_invoice.paid_amount = SumAmounts(payments)

\* C26: the payments recorded for the invoice never add up to more than its
\* total_amount.
C26_PaymentsWithinTotal ==
    SumAmounts(payments) <= paid_invoice.total_amount

\* ------------------------------------------------------------------------
\* SpecFs: fileStoresRouter (getDefault, create, update, setDefault)
\* ------------------------------------------------------------------------
\* file_stores is global (no center_id, no row level security). Each handler
\* issues its statements one by one on the pool, outside any transaction, so
\* the statements of two requests interleave.

\* MaxStores bounds the rows of file_stores
MaxStores == 3
StoreIds == 1..MaxStores

\* getDefault inserts a store named "Local Storage"; create takes the name
\* from its input
LocalStorage == "Local Storage"
StoreNames == {LocalStorage, "s3"}

NoStore == [name |-> "none", is_default |-> FALSE]

\* isDefault: z.boolean().optional(); in update's partial schema "unset"
\* stands for an absent field
IsDefaultInputs == {"unset", "true", "false"}

FsOps == {"getDefault", "create", "update", "setDefault"}

NoFs == [pc |-> "idle", op |-> "none", id |-> 0, name |-> "none", isDefault |-> "unset", result |-> "none"]

StoresPresent == {i \in StoreIds : file_stores[i] # NoStore}

\* name TEXT UNIQUE NOT NULL
NameTaken(n) == \E i \in StoresPresent : file_stores[i].name = n

\* id UUID DEFAULT uuid_generate_v4(): a fresh id
NewStoreId == CHOOSE i \in StoreIds \ StoresPresent : \A j \in StoreIds \ StoresPresent : i <= j

\* UPDATE file_stores SET is_default = false WHERE is_default = true AND id != except
UnsetDefaults(except) ==
    [i \in StoreIds |->
        IF file_stores[i] # NoStore /\ file_stores[i].is_default /\ i # except
        THEN [file_stores[i] EXCEPT !.is_default = FALSE]
        ELSE file_stores[i]]

InitFs ==
    /\ file_stores = [i \in StoreIds |-> NoStore]
    /\ fsreq = [c \in Clients |-> NoFs]
    /\ sess = [user_id |-> NULL, center_id |-> NULL]
    /\ tbl = <<>>
    /\ pc = <<>>
    /\ req = <<>>
    /\ resp = <<>>
    /\ invoices = <<>>
    /\ invoice_items = <<>>
    /\ pharmacy_item = <<>>
    /\ pharmacy_transactions = <<>>
    /\ txreq = <<>>
    /\ txresp = <<>>
    /\ medical_acts = <<>>
    /\ encryption_key = <<>>
    /\ pgp_call = <<>>
    /\ appointments = <<>>
    /\ appt_resp = <<>>
    /\ audit_logs = <<>>
    /\ stmt = <<>>
    /\ password = <<>>
    /\ validation = <<>>
    /\ paid_invoice = <<>>
    /\ payments = <<>>
    /\ payreq = <<>>

\* a request enters one of the four procedures with its input
FsStart(c, op, id, n, d) ==
    /\ fsreq[c].pc = "idle"
    /\ op \in {"update", "setDefault"} => id \in StoreIds
    /\ op \in {"getDefault", "create"} => id = 0
    /\ op = "create" => n \in StoreNames /\ d # "unset"
    /\ op # "create" => n = "none"
    /\ op \in {"getDefault", "setDefault"} => d = "unset"
    /\ fsreq' = [fsreq EXCEPT ![c] = [pc |-> "select", op |-> op, id |-> id, name |-> n, isDefault |-> d, result |-> "none"]]
    /\ UNCHANGED file_stores
    /\ UNCHANGED nonFsVars

\* getDefault: SELECT .. WHERE is_default = true LIMIT 1
GetDefaultSelect(c) ==
    /\ fsreq[c].pc = "select" /\ fsreq[c].op = "getDefault"
    /\ IF \E i \in StoresPresent : file_stores[i].is_default
       THEN fsreq' = [fsreq EXCEPT ![c].pc = "done", ![c].result = "ok"]
       ELSE fsreq' = [fsreq EXCEPT ![c].pc = "insert"]
    /\ UNCHANGED file_stores
    /\ UNCHANGED nonFsVars

\* getDefault: no default found, INSERT ("Local Storage", "local", isDefault true)
GetDefaultInsert(c) ==
    /\ fsreq[c].pc = "insert" /\ fsreq[c].op = "getDefault"
    /\ IF NameTaken(LocalStorage)
       THEN /\ fsreq' = [fsreq EXCEPT ![c].pc = "done", ![c].result = "unique_violation"]
            /\ UNCHANGED file_stores
       ELSE /\ StoresPresent # StoreIds
            /\ file_stores' = [file_stores EXCEPT ![NewStoreId] = [name |-> LocalStorage, is_default |-> TRUE]]
            /\ fsreq' = [fsreq EXCEPT ![c].pc = "done", ![c].result = "ok"]
    /\ UNCHANGED nonFsVars

\* create: SELECT .. WHERE name = input.name; CONFLICT when it exists
CreateSelect(c) ==
    /\ fsreq[c].pc = "select" /\ fsreq[c].op = "create"
    /\ IF NameTaken(fsreq[c].name)
       THEN fsreq' = [fsreq EXCEPT ![c].pc = "done", ![c].result = "CONFLICT"]
       ELSE fsreq' = [fsreq EXCEPT ![c].pc = IF fsreq[c].isDefault = "true" THEN "unset" ELSE "insert"]
    /\ UNCHANGED file_stores
    /\ UNCHANGED nonFsVars

\* create: if (input.isDefault) UPDATE .. SET is_default = false WHERE is_default = true
CreateUnset(c) ==
    /\ fsreq[c].pc = "unset" /\ fsreq[c].op = "create"
    /\ file_stores' = UnsetDefaults(0)
    /\ fsreq' = [fsreq EXCEPT ![c].pc = "insert"]
    /\ UNCHANGED nonFsVars

\* create: INSERT (name, type, config, isDefault: input.isDefault || false)
CreateInsert(c) ==
    /\ fsreq[c].pc = "insert" /\ fsreq[c].op = "create"
    /\ IF NameTaken(fsreq[c].name)
       THEN /\ fsreq' = [fsreq EXCEPT ![c].pc = "done", ![c].result = "unique_violation"]
            /\ UNCHANGED file_stores
       ELSE /\ StoresPresent # StoreIds
            /\ file_stores' = [file_stores EXCEPT ![NewStoreId] =
                                  [name |-> fsreq[c].name, is_default |-> (fsreq[c].isDefault = "true")]]
            /\ fsreq' = [fsreq EXCEPT ![c].pc = "done", ![c].result = "ok"]
    /\ UNCHANGED nonFsVars

\* update: SELECT .. WHERE id = input.id; NOT_FOUND when absent
UpdateSelect(c) ==
    /\ fsreq[c].pc = "select" /\ fsreq[c].op = "update"
    /\ IF fsreq[c].id \notin StoresPresent
       THEN fsreq' = [fsreq EXCEPT ![c].pc = "done", ![c].result = "NOT_FOUND"]
       ELSE fsreq' = [fsreq EXCEPT ![c].pc = IF fsreq[c].isDefault = "true" THEN "unset" ELSE "set"]
    /\ UNCHANGED file_stores
    /\ UNCHANGED nonFsVars

\* update: if (input.data.isDefault === true) UPDATE .. SET is_default = false
\* WHERE is_default = true AND id != input.id
UpdateUnset(c) ==
    /\ fsreq[c].pc = "unset" /\ fsreq[c].op = "update"
    /\ file_stores' = UnsetDefaults(fsreq[c].id)
    /\ fsreq' = [fsreq EXCEPT ![c].pc = "set"]
    /\ UNCHANGED nonFsVars

\* update: UPDATE .. SET isDefault = input.data.isDefault WHERE id = input.id
\* (an absent field leaves the column as it is; the name is not in the input)
UpdateSet(c) ==
    /\ fsreq[c].pc = "set" /\ fsreq[c].op = "update"
    /\ file_stores' = [file_stores EXCEPT ![fsreq[c].id].is_default =
                          IF fsreq[c].isDefault = "unset" THEN @ ELSE fsreq[c].isDefault = "true"]
    /\ fsreq' = [fsreq EXCEPT ![c].pc = "done", ![c].result = "ok"]
    /\ UNCHANGED nonFsVars

\* setDefault: SELECT .. WHERE id = input.id; NOT_FOUND when absent
SetDefaultSelect(c) ==
    /\ fsreq[c].pc = "select" /\ fsreq[c].op = "setDefault"
    /\ IF fsreq[c].id \notin StoresPresent
       THEN fsreq' = [fsreq EXCEPT ![c].pc = "done", ![c].result = "NOT_FOUND"]
       ELSE fsreq' = [fsreq EXCEPT ![c].pc = "unset"]
    /\ UNCHANGED file_stores
    /\ UNCHANGED nonFsVars

\* setDefault: UPDATE .. SET is_default = false WHERE is_default = true
SetDefaultUnset(c) ==
    /\ fsreq[c].pc = "unset" /\ fsreq[c].op = "setDefault"
    /\ file_stores' = UnsetDefaults(0)
    /\ fsreq' = [fsreq EXCEPT ![c].pc = "set"]
    /\ UNCHANGED nonFsVars

\* setDefault: UPDATE .. SET is_default = true WHERE id = input.id
SetDefaultSet(c) ==
    /\ fsreq[c].pc = "set" /\ fsreq[c].op = "setDefault"
    /\ file_stores' = [file_stores EXCEPT ![fsreq[c].id].is_default = TRUE]
    /\ fsreq' = [fsreq EXCEPT ![c].pc = "done", ![c].result = "ok"]
    /\ UNCHANGED nonFsVars

\* the response is sent
FsFinish(c) ==
    /\ fsreq[c].pc = "done"
    /\ fsreq' = [fsreq EXCEPT ![c] = NoFs]
    /\ UNCHANGED file_stores
    /\ UNCHANGED nonFsVars

NextFs ==
    \E c \in Clients :
        \/ \E op \in FsOps, id \in StoreIds \cup {0}, n \in StoreNames \cup {"none"}, d \in IsDefaultInputs :
               FsStart(c, op, id, n, d)
        \/ GetDefaultSelect(c)
        \/ GetDefaultInsert(c)
        \/ CreateSelect(c)
        \/ CreateUnset(c)
        \/ CreateInsert(c)
        \/ UpdateSelect(c)
        \/ UpdateUnset(c)
        \/ UpdateSet(c)
        \/ SetDefaultSelect(c)
        \/ SetDefaultUnset(c)
        \/ SetDefaultSet(c)
        \/ FsFinish(c)

SpecFs == InitFs /\ [][NextFs]_vars

\* C29: at every moment at most one file store is marked default.
C29_AtMostOneDefault ==
    Cardinality({i \in StoresPresent : file_stores[i].is_default}) <= 1

\* ------------------------------------------------------------------------
\* SpecCancel: appointments.cancel over the stored notes
\* ------------------------------------------------------------------------
\* new Date().toISOString() inside the marker is one fixed token
CancelledMarker == "[CANCELLED ts]"

\* a JavaScript string that is neither null nor ""
Truthy(v) == v.tag = "text" /\ v.data # <<>>

\* notes ? `${notes}\n\n[CANCELLED ${timestamp}] ${input.reason}`
\*       : `[CANCELLED ${timestamp}] ${input.reason}`, when input.reason is
\* truthy; else notes as decrypted
CancelNotes(notes, reason) ==
    IF ~Truthy(reason) THEN notes
    ELSE IF Truthy(notes)
         THEN Text(notes.data \o <<"\n", "\n", CancelledMarker, " ">> \o reason.data)
         ELSE Text(<<CancelledMarker, " ">> \o reason.data)

\* appointments.cancel: db.getAppointmentById, NOT_FOUND when there is no row;
\* notes = decryptOptional(appointment.notesEncrypted) extended by the reason;
\* db.updateAppointment(id, {status: "cancelled", notesEncrypted:
\* encryptOptional(notes) || null}). Notes that already carry a reason are
\* not extended again (bound).
AppointmentsCancel(i, reason) ==
    /\ Len(appointments[i].notes_encrypted.data) <= MaxLen
    /\ IF ~appointments[i].exists
       THEN /\ appt_resp' = [op |-> "cancel", status |-> "NOT_FOUND", id |-> i,
                             input |-> reason, notes |-> Absent]
            /\ UNCHANGED appointments
       ELSE LET notes == CancelNotes(decryptOptional(appointments[i].notes_encrypted, encryption_key), reason)
            IN /\ appointments' = [appointments EXCEPT
                      ![i].status = "cancelled",
                      ![i].notes_encrypted = encryptOptional(notes, encryption_key)]
               /\ appt_resp' = [op |-> "cancel", status |-> "ok", id |-> i,
                                input |-> reason, notes |-> Absent]
    /\ UNCHANGED encryption_key
    /\ UNCHANGED nonApptVars

NextCancel ==
    \/ \E k \in Keys : UpdateEncryptionKey(k)
    \/ \E i \in ApptIds, notes \in OptionalTexts : AppointmentsCreate(i, notes)
    \/ \E i \in ApptIds, reason \in OptionalTexts : AppointmentsCancel(i, reason)

SpecCancel == InitAppt /\ [][NextCancel]_vars

\* C30: a cancel of an existing appointment whose stored notes the key does
\* not open, or whose new notes cannot be encrypted, fails and leaves the row
\* as it was; any other cancel stores notes that decrypt to the previous notes
\* followed by the reason (to the previous notes alone when there is no reason).
C30_CancelKeepsNotes ==
    [][\A i \in ApptIds :
          (/\ appt_resp' # appt_resp
           /\ appt_resp'.op = "cancel" /\ appt_resp'.id = i
           /\ appointments[i].exists)
          => LET stored == appointments[i].notes_encrypted
                 previous == IF stored.tag = "absent" THEN Absent ELSE decrypt(stored, encryption_key)
                 expected == CancelNotes(previous, appt_resp'.input)
             IN IF previous.tag = "error"
                   \/ (~IsBlank(expected) /\ encrypt(expected, encryption_key).tag = "error")
                THEN appt_resp'.status = "error" /\ appointments' = appointments
                ELSE /\ appt_resp'.status = "ok"
                     /\ decryptOptional(appointments'[i].notes_encrypted, encryption_key) = expected]_vars

\* ------------------------------------------------------------------------
\* SpecTrail: patients.update of concurrent requests with audit_patients
\* ------------------------------------------------------------------------
\* The requests of SpecIso's clients, restricted to authenticated
\* patients.update calls, over the shared session; the UPDATE fires the
\* audit trigger of patients.

\* patients.update, second statement: db.updatePatient; AFTER UPDATE FOR EACH
\* ROW log_audit_change() appends an entry with usr_id := get_current_user_id()
\* for the row the statement changed; no row returned -> INTERNAL_SERVER_ERROR
PatientsUpdateSetAudited(c) ==
    /\ pc[c] = "h2" /\ req[c].op = "patients.update"
    /\ Len(audit_logs) < MaxAudit
    /\ tbl' = UpdateRow("patients", req[c].id, sess)
    /\ IF ById("patients", req[c].id, sess) = {}
       THEN /\ Reply(c, "INTERNAL_SERVER_ERROR", {})
            /\ UNCHANGED audit_logs
       ELSE /\ Reply(c, "ok", CentersOf("patients", ById("patients", req[c].id, sess)))
            /\ audit_logs' = Append(audit_logs,
                   AuditEntry("patients", "UPDATE", req[c].id,
                              UpdateRow("patients", req[c].id, sess)))
    /\ UNCHANGED <<sess, req>>
    /\ UNCHANGED <<invoices, invoice_items, pharmacy_item, pharmacy_transactions, txreq,
                   txresp, medical_acts, encryption_key, pgp_call, appointments, appt_resp,
                   stmt, password, validation, paid_invoice, payments, payreq, file_stores,
                   fsreq>>

NextTrail ==
    \E c \in Clients :
        \/ \E id \in SeedIds :
               Start(c, [op |-> "patients.update", auth |-> TRUE, id |-> id, centerId |-> NULL])
        \/ SetUserId(c)
        \/ SetCenterId(c)
        \/ PatientsUpdateGet(c)
        \/ PatientsUpdateSetAudited(c)
        \/ Finish(c)

SpecTrail == InitIso /\ [][NextTrail]_vars

\* C28: the audit entry written by a request's mutation carries the id of the
\* user of that request, whatever other requests do on the session meanwhile.
C28_AuditNamesActingUser ==
    [][\A c \in Clients :
          (pc[c] = "h2" /\ pc'[c] # "h2" /\ Len(audit_logs') > Len(audit_logs))
              => audit_logs'[Len(audit_logs')].user_id = c]_vars

====
